---- MODULE Spec2Model ----
(***************************************************************************)
(* Model of the FABRIC web GUI backend:                                    *)
(*   - the draft slice store and the slice routes that use it              *)
(*     (backend/app/routes/slices.py), one process per worker thread,      *)
(*     one step per lock-protected table access or upstream call;          *)
(*   - the terminal relay session (backend/app/routes/terminal.py).        *)
(***************************************************************************)
EXTENDS Integers, Sequences, FiniteSets, TLC

\* ------------------------------------------------------------------ bounds
\* Requests each worker thread issues.
MaxReqs == 2
\* Requests all worker threads issue together.
MaxTotal == 4
\* Slice objects the upstream library hands out (new_slice / get_slice).
MaxObj == 3
\* Chunks of output the remote shell produces in a recorded session.
MaxOut == 2
\* "input" messages the client sends in a recorded session.
MaxIn == 2

Threads == {"w1", "w2"}
Names == {"exp1"}
NoThread == "nobody"
\* Python's None for a slice object; real objects are 1..MaxObj.
None == 0
Objs == 1..MaxObj

\* add_node stands for the seven editing routes (add_node, remove_node,
\* update_node, add_component, remove_component, add_network, remove_network):
\* each is _get_slice_obj, one mutation of the object, _serialize(dirty=True)
EditOps == {"add_node"}

Ops == {"get_slice", "create_slice", "submit_slice", "refresh_slice",
        "delete_slice", "list_slices"} \cup EditOps

VARIABLES
    \* ---- slices.py module state
    draft_slices,   \* _draft_slices : dict name -> slice object
    draft_is_new,   \* _draft_is_new : dict name -> bool
    draft_lock,     \* _draft_lock   : the thread inside "with _draft_lock", or NoThread
    \* ---- per worker thread (one request at a time)
    pc,             \* position inside the running route handler
    op,             \* the route being served
    nm,             \* its slice_name argument
    slice_obj,      \* the handler's local slice_obj / draft
    is_new,         \* the handler's local is_new
    result,         \* how the last request ended (HTTP status, or "none")
    label,          \* _serialize's local is_new (state "Draft" iff TRUE)
    reqs,           \* requests issued so far
    nextObj,        \* next fresh object identity the upstream library returns
    existing_names, \* list_slices' local existing_names (names upstream lists)
    draftEntries,   \* list_slices: per name, the "Draft" entries appended to results
    \* ---- history (not program state)
    lastPut,        \* per name: the last completed _store_draft, <<obj, flag>> or <<>>
    popLog,         \* per name: results of the _pop_draft calls since lastPut
    interfered,     \* per thread: another thread wrote the table for nm[t] during the request
    upstreamCalls,  \* per name: set of upstream mutating calls made ("submit", "delete")
    myCalls         \* per thread: upstream calls the running request has made

draftVars == <<draft_slices, draft_is_new, draft_lock, pc, op, nm, slice_obj,
               is_new, result, label, reqs, nextObj, lastPut, popLog,
               interfered, upstreamCalls, myCalls, existing_names,
               draftEntries>>

listVars == <<existing_names, draftEntries>>

VARIABLES
    \* ---- one terminal_ws session (terminal.py)
    spc,            \* position of the terminal_ws coroutine
    mgmt_ip,        \* management_ip = str(node_obj.get_management_ip()): its kind
    res,            \* each network resource: "none", "open" or "closed"
    bastion,        \* terminal_ws local "bastion" is bound (not None)
    target,         \* terminal_ws locals "target" and "shell" are bound
    clientGone,     \* the client has disconnected
    wsClosed,       \* the handler has called websocket.close()
    rstate,         \* position of the read_ssh task
    cancelRequested,\* read_task.cancel() has been called
    shellRemote,    \* the remote end of the shell channel: "open" or "closed"
    shellHasData,   \* shell.recv_ready()
    outcome,        \* how terminal_ws ended: "none", "returned", "raised", "cancelled"
    \* ---- history (not program state)
    failedStage,    \* the setup stage whose call raised, or "none"
    errLines,       \* error lines handed to websocket.send_text
    closeLog,       \* close() calls made on resources, in order
    endCause,       \* why the relay loop was left
    failedRead      \* read_ssh polled the shell after the channel was closed

VARIABLES
    \* ---- the shell channel and its traffic
    readsInFlight,  \* executor threads currently inside _read_shell
    pty,            \* <<width, height>> of the remote pseudo-terminal
    \* ---- history of the relayed traffic (kept only while trace is TRUE)
    trace,          \* whether this behaviour records the traffic below
    outCount,       \* chunks of output the remote shell has produced
    readLog,        \* non-empty chunks _read_shell returned, in order
    sentLog,        \* chunks read_ssh handed to websocket.send_text and sent
    inLog,          \* data of the "input" messages received, in order
    shellWrites,    \* arguments of the shell.send calls, in order
    lastHandled     \* the last client message and the shell calls it caused

ioVars == <<readsInFlight, pty, trace, outCount, readLog, sentLog, inLog,
            shellWrites, lastHandled>>

VARIABLES
    \* ---- history of the setup phase of terminal_ws
    stageLog        \* progress lines sent and blocking calls begun, in order

VARIABLES
    \* ---- one _load_private_key call (terminal.py)
    keyFile,        \* what each key class makes of the file: "ok" or an error
    keyPos,         \* index of the key class the loop is at; 0: no call
    keyTried,       \* key classes tried so far, in order
    last_err,       \* _load_private_key's local last_err
    keyResult       \* how the call ended: <<"none">>, <<"returned", class>>
                    \* or <<"raised", last_err>>

keyVars == <<keyFile, keyPos, keyTried, last_err, keyResult>>

sessionVars == <<spc, mgmt_ip, res, bastion, target, clientGone, wsClosed,
                 rstate, cancelRequested, shellRemote, shellHasData, outcome,
                 failedStage, errLines, closeLog, endCause, failedRead, ioVars,
                 stageLog>>

VARIABLES
    \* ---- fablib_manager.py module state
    fablib,         \* _fablib: None, or the identity of a FablibManager instance
    fab_lock,       \* _lock: the thread inside "with _lock", or NoThread
    rcPresent,      \* the file fabric_rc exists in the configuration directory
    \* ---- per calling thread
    fpc,            \* position inside get_fablib / reset_fablib
    fop,            \* the function being called
    fret,           \* what the last get_fablib call gave its caller
    fcalls,         \* calls made so far
    \* ---- history (not program state)
    constructed,    \* FablibManager() constructions completed
    resets          \* reset_fablib calls begun

fabVars == <<fablib, fab_lock, rcPresent, fpc, fop, fret, fcalls, constructed,
             resets>>

termVars == <<sessionVars, keyVars, fabVars>>

vars == <<draftVars, termVars>>

\* ------------------------------------------------------------ dict helpers
\* d[k] = v  (insert or overwrite)
DictSet(d, k, v) == [x \in DOMAIN d \cup {k} |-> IF x = k THEN v ELSE d[x]]
\* d.get(k, dflt)  (DictGetDefault: the default whatever the table holds)
DictGetDefault(d, k, dflt) == dflt

DictGet(d, k, dflt) == IF k \in DOMAIN d THEN d[k] ELSE dflt
\* the table left by d.pop(k, dflt): the key is gone (DictPopKeep: a lookup
\* that leaves the key in place, as d.get would; DictPopSetDefault: a lookup
\* that enters the default for a missing key, as d.setdefault would)
DictPopKeep(d, k) == d

DictPopSetDefault(d, k) ==
    [x \in DOMAIN d \cup {k} |-> IF x \in DOMAIN d THEN d[x] ELSE None]

DictPop(d, k) == [x \in DOMAIN d \ {k} |-> d[x]]

\* "with _draft_lock:" can be entered only while no thread is inside it.
LockIgnored == TRUE
LockAvailable == draft_lock = NoThread


\* ------------------------------------------------------- handler positions
Store1Labels == {"g_store1", "c_store1", "s_restore1", "r_store1"}
Store2Labels == {"g_store2", "c_store2", "s_restore2", "r_store2"}
Pop1Labels   == {"s_pop1", "r_pop1", "d_pop1"}
Pop2Labels   == {"s_pop2", "r_pop2", "d_pop2"}
\* positions at which the thread is inside a call into the upstream library
UpstreamLabels == {"g_fetch", "c_new", "s_submit", "r_fetch", "r_update",
                   "d_fetch", "d_delete", "l_get_slices", "e_fetch", "e_mutate"}
\* the upstream call made at each of them
UpstreamCallAt(l) ==
    CASE l \in {"g_fetch", "r_fetch", "d_fetch", "e_fetch"} -> "get_slice"
      [] l = "c_new"        -> "new_slice"
      [] l = "s_submit"     -> "submit"
      [] l = "r_update"     -> "update"
      [] l = "d_delete"     -> "delete"
      [] l = "l_get_slices" -> "get_slices"
      [] l = "e_mutate"     -> "add_node"
\* positions inside a "with _draft_lock:" block, between its two table accesses
InsideLock == Store2Labels \cup Pop2Labels

FirstLabel(o) ==
    CASE o = "get_slice"     -> "g_get_draft"
      [] o = "create_slice"  -> "c_new"
      [] o = "submit_slice"  -> "s_pop1"
      [] o = "refresh_slice" -> "r_pop1"
      [] o = "delete_slice"  -> "d_pop1"
      [] o = "list_slices"   -> "l_get_slices"
      [] o = "add_node"      -> "e_get_draft"

\* is_new argument of each _store_draft call site
RestoreFlagDefault(t) == TRUE

\* (StoreFlagKept: refresh_slice puts the record back with the flag it took)
StoreFlagKept(t) ==
    CASE pc[t] = "g_store2"   -> FALSE
      [] pc[t] = "c_store2"   -> TRUE
      [] pc[t] = "s_restore2" -> is_new[t]
      [] pc[t] = "r_store2"   -> is_new[t]

\* (StoreFlagLoadedAsNew: get_slice stores what it loaded as a new draft)
StoreFlagLoadedAsNew(t) ==
    CASE pc[t] = "g_store2"   -> TRUE
      [] pc[t] = "c_store2"   -> TRUE
      [] pc[t] = "s_restore2" -> is_new[t]
      [] pc[t] = "r_store2"   -> FALSE

RestoreFlag(t) == is_new[t]
StoreFlag(t) ==
    CASE pc[t] = "g_store2"   -> FALSE
      [] pc[t] = "c_store2"   -> TRUE
      [] pc[t] = "s_restore2" -> RestoreFlag(t)
      [] pc[t] = "r_store2"   -> FALSE

\* where a handler continues after its _store_draft call returned
AfterStore(t) == IF pc[t] = "s_restore2" THEN "done" ELSE "ser_is_draft"
AfterStoreResult(t) == IF pc[t] = "s_restore2" THEN "500" ELSE result[t]

\* another thread wrote the table entry of name n
Touch(t, n) == [u \in Threads |-> IF u # t /\ nm[u] = n THEN TRUE ELSE interfered[u]]

\* no "Draft" entry appended
NoEntries == [n \in Names |-> 0]

\* ------------------------------------------------------------------- Init
DraftInit ==
    /\ draft_slices = << >>
    /\ draft_is_new = << >>
    /\ draft_lock = NoThread
    /\ pc = [t \in Threads |-> "done"]
    /\ op = [t \in Threads |-> "none"]
    /\ nm = [t \in Threads |-> "none"]
    /\ slice_obj = [t \in Threads |-> None]
    /\ is_new = [t \in Threads |-> TRUE]
    /\ result = [t \in Threads |-> "none"]
    /\ label = [t \in Threads |-> FALSE]
    /\ reqs = [t \in Threads |-> 0]
    /\ nextObj = 1
    /\ lastPut = [n \in Names |-> << >>]
    /\ popLog = [n \in Names |-> << >>]
    /\ interfered = [t \in Threads |-> FALSE]
    /\ upstreamCalls = [n \in Names |-> {}]
    /\ myCalls = [t \in Threads |-> {}]
    /\ existing_names = [t \in Threads |-> {}]
    /\ draftEntries = [t \in Threads |-> NoEntries]

\* ------------------------------------------------------- a request arrives
ReqsIssued == reqs["w1"] + reqs["w2"]

Begin(t) ==
    /\ pc[t] = "done"
    /\ reqs[t] < MaxReqs
    /\ ReqsIssued < MaxTotal
    /\ \E o \in Ops, n \in Names :
         /\ op' = [op EXCEPT ![t] = o]
         /\ nm' = [nm EXCEPT ![t] = n]
         /\ pc' = [pc EXCEPT ![t] = FirstLabel(o)]
    /\ reqs' = [reqs EXCEPT ![t] = @ + 1]
    /\ slice_obj' = [slice_obj EXCEPT ![t] = None]
    /\ is_new' = [is_new EXCEPT ![t] = TRUE]
    /\ result' = [result EXCEPT ![t] = "none"]
    /\ label' = [label EXCEPT ![t] = FALSE]
    /\ interfered' = [interfered EXCEPT ![t] = FALSE]
    /\ myCalls' = [myCalls EXCEPT ![t] = {}]
    /\ UNCHANGED <<draft_slices, draft_is_new, draft_lock, nextObj, lastPut,
                   popLog, upstreamCalls>>
    /\ existing_names' = [existing_names EXCEPT ![t] = {}]
    /\ draftEntries' = [draftEntries EXCEPT ![t] = NoEntries]
    /\ UNCHANGED termVars

\* ------------------------------------------------------------ _store_draft
\* with _draft_lock: _draft_slices[name] = slice_obj
StoreWrite1(t) ==
    /\ pc[t] \in Store1Labels
    /\ LockAvailable
    /\ draft_lock' = t
    /\ draft_slices' = DictSet(draft_slices, nm[t], slice_obj[t])
    /\ pc' = [pc EXCEPT ![t] =
                CASE @ = "g_store1"   -> "g_store2"
                  [] @ = "c_store1"   -> "c_store2"
                  [] @ = "s_restore1" -> "s_restore2"
                  [] @ = "r_store1"   -> "r_store2"]
    /\ interfered' = Touch(t, nm[t])
    /\ UNCHANGED <<draft_is_new, op, nm, slice_obj, is_new, result, label,
                   reqs, nextObj, lastPut, popLog, upstreamCalls, myCalls>>
    /\ UNCHANGED listVars
    /\ UNCHANGED termVars

\* _draft_is_new[name] = is_new; leave the lock
StoreWrite2(t) ==
    /\ pc[t] \in Store2Labels
    /\ draft_is_new' = DictSet(draft_is_new, nm[t], StoreFlag(t))
    /\ draft_lock' = NoThread
    /\ pc' = [pc EXCEPT ![t] = AfterStore(t)]
    /\ result' = [result EXCEPT ![t] = AfterStoreResult(t)]
    /\ lastPut' = [lastPut EXCEPT ![nm[t]] = <<slice_obj[t], StoreFlag(t)>>]
    /\ popLog' = [popLog EXCEPT ![nm[t]] = << >>]
    /\ interfered' = Touch(t, nm[t])
    /\ UNCHANGED <<draft_slices, op, nm, slice_obj, is_new, label, reqs,
                   nextObj, upstreamCalls, myCalls>>
    /\ UNCHANGED listVars
    /\ UNCHANGED termVars

\* -------------------------------------------------------------- _pop_draft
\* with _draft_lock: obj = _draft_slices.pop(name, None)
PopRemove1(t) ==
    /\ pc[t] \in Pop1Labels
    /\ LockAvailable
    /\ draft_lock' = t
    /\ slice_obj' = [slice_obj EXCEPT ![t] = DictGet(draft_slices, nm[t], None)]
    /\ draft_slices' = DictPop(draft_slices, nm[t])
    /\ pc' = [pc EXCEPT ![t] =
                CASE @ = "s_pop1" -> "s_pop2"
                  [] @ = "r_pop1" -> "r_pop2"
                  [] @ = "d_pop1" -> "d_pop2"]
    /\ interfered' = Touch(t, nm[t])
    /\ UNCHANGED <<draft_is_new, op, nm, is_new, result, label, reqs, nextObj,
                   lastPut, popLog, upstreamCalls, myCalls>>
    /\ UNCHANGED listVars
    /\ UNCHANGED termVars

\* where each caller of _pop_draft goes with (draft, is_new)
\* (AfterPopDeletesUpstream: delete_slice goes upstream whatever it took)
AfterPopDeletesUpstream(t, draft, flag) ==
    CASE pc[t] = "s_pop2" -> IF draft # None THEN "s_submit" ELSE "done"
      [] pc[t] = "r_pop2" -> "r_fetch"
      [] pc[t] = "d_pop2" -> "d_fetch"

\* (AfterPopDiscardsAny: delete_slice stops at any draft it took, new or loaded)
AfterPopDiscardsAny(t, draft, flag) ==
    CASE pc[t] = "s_pop2" -> IF draft # None THEN "s_submit" ELSE "done"
      [] pc[t] = "r_pop2" -> "r_fetch"
      [] pc[t] = "d_pop2" -> IF draft # None THEN "done" ELSE "d_fetch"

\* (AfterPopSubmitsAnyway: submit_slice goes on to submit whatever it took)
AfterPopSubmitsAnyway(t, draft, flag) ==
    CASE pc[t] = "s_pop2" -> "s_submit"
      [] pc[t] = "r_pop2" -> "r_fetch"
      [] pc[t] = "d_pop2" -> IF draft # None /\ flag THEN "done" ELSE "d_fetch"

AfterPop(t, draft, flag) ==
    CASE pc[t] = "s_pop2" -> IF draft # None THEN "s_submit" ELSE "done"
      [] pc[t] = "r_pop2" -> "r_fetch"
      [] pc[t] = "d_pop2" -> IF draft # None /\ flag THEN "done" ELSE "d_fetch"
AfterPopResult(t, draft, flag) ==
    CASE pc[t] = "s_pop2" -> IF draft # None THEN "none" ELSE "400"
      [] pc[t] = "r_pop2" -> "none"
      [] pc[t] = "d_pop2" -> IF draft # None /\ flag THEN "200" ELSE "none"

\* is_new = _draft_is_new.pop(name, True); return obj, is_new
PopRemove2(t) ==
    LET flag == DictGet(draft_is_new, nm[t], TRUE) IN
    /\ pc[t] \in Pop2Labels
    /\ is_new' = [is_new EXCEPT ![t] = flag]
    /\ draft_is_new' = DictPop(draft_is_new, nm[t])
    /\ draft_lock' = NoThread
    /\ popLog' = [popLog EXCEPT ![nm[t]] = Append(@, <<slice_obj[t], flag>>)]
    /\ pc' = [pc EXCEPT ![t] = AfterPop(t, slice_obj[t], flag)]
    /\ result' = [result EXCEPT ![t] = AfterPopResult(t, slice_obj[t], flag)]
    /\ interfered' = [Touch(t, nm[t]) EXCEPT ![t] = FALSE]
    /\ UNCHANGED <<draft_slices, op, nm, slice_obj, label, reqs, nextObj,
                   lastPut, upstreamCalls, myCalls>>
    /\ UNCHANGED listVars
    /\ UNCHANGED termVars

\* --------------------------------------------- _get_draft / _is_draft reads
\* _get_slice_obj decides on the draft it looked up: "if draft is not None:
\* return draft" (UseDraftNever: the upstream copy is fetched whatever the
\* store holds)
UseDraftNever(draft) == FALSE

UseDraft(draft) == draft # None

\* where the callers of _get_slice_obj continue with the draft, and where they
\* fetch
WithDraft(t) == IF pc[t] = "g_get_draft" THEN "g_is_draft" ELSE "e_mutate"
WithoutDraft(t) == IF pc[t] = "g_get_draft" THEN "g_fetch" ELSE "e_fetch"

\* get_slice and the editing routes -> _get_slice_obj: draft =
\* _get_draft(name); a draft is returned as is, otherwise the slice is fetched
\* upstream
GetDraft(t) ==
    /\ pc[t] \in {"g_get_draft", "e_get_draft"}
    /\ LockAvailable
    /\ slice_obj' = [slice_obj EXCEPT ![t] = DictGet(draft_slices, nm[t], None)]
    /\ pc' = [pc EXCEPT ![t] =
                IF UseDraft(DictGet(draft_slices, nm[t], None))
                THEN WithDraft(t) ELSE WithoutDraft(t)]
    /\ UNCHANGED <<draft_slices, draft_is_new, draft_lock, op, nm, is_new,
                   result, label, reqs, nextObj, lastPut, popLog, interfered,
                   upstreamCalls, myCalls>>
    /\ UNCHANGED listVars
    /\ UNCHANGED termVars

\* get_slice: if not _is_draft(slice_name): _store_draft(..., is_new=False)
IsDraftCheck(t) ==
    /\ pc[t] = "g_is_draft"
    /\ LockAvailable
    /\ pc' = [pc EXCEPT ![t] =
                IF nm[t] \in DOMAIN draft_slices THEN "ser_is_draft" ELSE "g_store1"]
    /\ UNCHANGED <<draft_slices, draft_is_new, draft_lock, op, nm, slice_obj,
                   is_new, result, label, reqs, nextObj, lastPut, popLog,
                   interfered, upstreamCalls, myCalls>>
    /\ UNCHANGED listVars
    /\ UNCHANGED termVars

\* -------------------------------------------------------------- _serialize
\* is_new = _is_new_draft(name) if _is_draft(name) else False : first lookup
SerializeIsDraft(t) ==
    /\ pc[t] = "ser_is_draft"
    /\ LockAvailable
    /\ IF nm[t] \in DOMAIN draft_slices
       THEN /\ pc' = [pc EXCEPT ![t] = "ser_is_new"]
            /\ UNCHANGED <<label, result>>
       ELSE /\ pc' = [pc EXCEPT ![t] = "done"]
            /\ label' = [label EXCEPT ![t] = FALSE]
            /\ result' = [result EXCEPT ![t] = "200"]
    /\ UNCHANGED <<draft_slices, draft_is_new, draft_lock, op, nm, slice_obj,
                   is_new, reqs, nextObj, lastPut, popLog, interfered,
                   upstreamCalls, myCalls>>
    /\ UNCHANGED listVars
    /\ UNCHANGED termVars

\* second lookup: _draft_is_new.get(name, True); the handler returns
SerializeIsNew(t) ==
    /\ pc[t] = "ser_is_new"
    /\ LockAvailable
    /\ label' = [label EXCEPT ![t] = DictGet(draft_is_new, nm[t], TRUE)]
    /\ pc' = [pc EXCEPT ![t] = "done"]
    /\ result' = [result EXCEPT ![t] = "200"]
    /\ UNCHANGED <<draft_slices, draft_is_new, draft_lock, op, nm, slice_obj,
                   is_new, reqs, nextObj, lastPut, popLog, interfered,
                   upstreamCalls, myCalls>>
    /\ UNCHANGED listVars
    /\ UNCHANGED termVars

\* ------------------------------------------------------------ upstream calls
\* fablib.get_slice(name=...) returns a fresh object (get_slice, refresh_slice,
\* delete_slice) and fablib.new_slice(name=...) one too (create_slice)
FetchReturns(t) ==
    /\ pc[t] \in {"g_fetch", "c_new", "r_fetch", "d_fetch", "e_fetch"}
    /\ nextObj <= MaxObj
    /\ slice_obj' = [slice_obj EXCEPT ![t] = nextObj]
    /\ nextObj' = nextObj + 1
    /\ pc' = [pc EXCEPT ![t] =
                CASE @ = "g_fetch" -> "g_is_draft"
                  [] @ = "c_new"   -> "c_store1"
                  [] @ = "r_fetch" -> "r_update"
                  [] @ = "d_fetch" -> "d_delete"
                  [] @ = "e_fetch" -> "e_mutate"]
    /\ myCalls' = [myCalls EXCEPT ![t] = @ \cup {UpstreamCallAt(pc[t])}]
    /\ UNCHANGED <<draft_slices, draft_is_new, draft_lock, op, nm, is_new,
                   result, label, reqs, lastPut, popLog, interfered,
                   upstreamCalls>>
    /\ UNCHANGED listVars
    /\ UNCHANGED termVars

\* status of the HTTPException each handler raises when its try block fails
ErrorStatus(t) == IF op[t] = "get_slice" THEN "404" ELSE "500"

\* the upstream call raises: get_slice / new_slice / update / delete / get_slices
UpstreamRaises(t) ==
    /\ pc[t] \in UpstreamLabels \ {"s_submit"}
    /\ pc' = [pc EXCEPT ![t] = "done"]
    /\ result' = [result EXCEPT ![t] = ErrorStatus(t)]
    /\ myCalls' = [myCalls EXCEPT ![t] = @ \cup {UpstreamCallAt(pc[t])}]
    /\ UNCHANGED <<draft_slices, draft_is_new, draft_lock, op, nm, slice_obj,
                   is_new, label, reqs, nextObj, lastPut, popLog, interfered,
                   upstreamCalls>>
    /\ UNCHANGED listVars
    /\ UNCHANGED termVars

\* an editing route: the mutation of the object (slice_obj.add_node(...),
\* node.delete(), ...) returns; what the object then holds is the upstream
\* library's business
EditReturns(t) ==
    /\ pc[t] = "e_mutate"
    /\ pc' = [pc EXCEPT ![t] = "ser_is_draft"]
    /\ myCalls' = [myCalls EXCEPT ![t] = @ \cup {UpstreamCallAt(pc[t])}]
    /\ UNCHANGED <<draft_slices, draft_is_new, draft_lock, op, nm, slice_obj,
                   is_new, result, label, reqs, nextObj, lastPut, popLog,
                   interfered, upstreamCalls>>
    /\ UNCHANGED listVars
    /\ UNCHANGED termVars

\* refresh_slice: slice_obj.update() returns
UpdateReturns(t) ==
    /\ pc[t] = "r_update"
    /\ pc' = [pc EXCEPT ![t] = "r_store1"]
    /\ myCalls' = [myCalls EXCEPT ![t] = @ \cup {UpstreamCallAt(pc[t])}]
    /\ UNCHANGED <<draft_slices, draft_is_new, draft_lock, op, nm, slice_obj,
                   is_new, result, label, reqs, nextObj, lastPut, popLog,
                   interfered, upstreamCalls>>
    /\ UNCHANGED listVars
    /\ UNCHANGED termVars

\* delete_slice: slice_obj.delete() returns
DeleteReturns(t) ==
    /\ pc[t] = "d_delete"
    /\ pc' = [pc EXCEPT ![t] = "done"]
    /\ result' = [result EXCEPT ![t] = "200"]
    /\ upstreamCalls' = [upstreamCalls EXCEPT ![nm[t]] = @ \cup {"delete"}]
    /\ myCalls' = [myCalls EXCEPT ![t] = @ \cup {UpstreamCallAt(pc[t])}]
    /\ UNCHANGED <<draft_slices, draft_is_new, draft_lock, op, nm, slice_obj,
                   is_new, label, reqs, nextObj, lastPut, popLog, interfered>>
    /\ UNCHANGED listVars
    /\ UNCHANGED termVars

\* submit_slice: draft.submit() / draft.submit(wait=False) returns
SubmitReturns(t) ==
    /\ pc[t] = "s_submit"
    /\ pc' = [pc EXCEPT ![t] = "ser_is_draft"]
    /\ upstreamCalls' = [upstreamCalls EXCEPT ![nm[t]] = @ \cup {"submit"}]
    /\ myCalls' = [myCalls EXCEPT ![t] = @ \cup {UpstreamCallAt(pc[t])}]
    /\ UNCHANGED <<draft_slices, draft_is_new, draft_lock, op, nm, slice_obj,
                   is_new, result, label, reqs, nextObj, lastPut, popLog,
                   interfered>>
    /\ UNCHANGED listVars
    /\ UNCHANGED termVars

\* submit_slice: the upstream submit raises; the handler puts the draft back
SubmitRaises(t) ==
    /\ pc[t] = "s_submit"
    /\ pc' = [pc EXCEPT ![t] = "s_restore1"]
    /\ upstreamCalls' = [upstreamCalls EXCEPT ![nm[t]] = @ \cup {"submit"}]
    /\ myCalls' = [myCalls EXCEPT ![t] = @ \cup {UpstreamCallAt(pc[t])}]
    /\ UNCHANGED <<draft_slices, draft_is_new, draft_lock, op, nm, slice_obj,
                   is_new, result, label, reqs, nextObj, lastPut, popLog,
                   interfered>>
    /\ UNCHANGED listVars
    /\ UNCHANGED termVars

\* list_slices: fablib.get_slices() returns; existing_names are the names of
\* the slices it lists
GetSlicesReturns(t) ==
    /\ pc[t] = "l_get_slices"
    /\ pc' = [pc EXCEPT ![t] = "l_scan"]
    /\ myCalls' = [myCalls EXCEPT ![t] = @ \cup {UpstreamCallAt(pc[t])}]
    /\ UNCHANGED <<draft_slices, draft_is_new, draft_lock, op, nm, slice_obj,
                   is_new, result, label, reqs, nextObj, lastPut, popLog,
                   interfered, upstreamCalls>>
    /\ \E listed \in SUBSET Names :
         existing_names' = [existing_names EXCEPT ![t] = listed]
    /\ UNCHANGED draftEntries
    /\ UNCHANGED termVars

\* list_slices, lines 122-124: "for name in _draft_slices: if name not in
\* existing_names: results.append(...)"
AppendsDraft(t, n) == n \in DOMAIN draft_slices /\ n \notin existing_names[t]

\* list_slices: the draft names are scanned inside "with _draft_lock:"; every
\* name of the table gets at most one entry, the table being a dict
ListScan(t) ==
    /\ pc[t] = "l_scan"
    /\ LockAvailable
    /\ pc' = [pc EXCEPT ![t] = "done"]
    /\ result' = [result EXCEPT ![t] = "200"]
    /\ UNCHANGED <<draft_slices, draft_is_new, draft_lock, op, nm, slice_obj,
                   is_new, label, reqs, nextObj, lastPut, popLog, interfered,
                   upstreamCalls, myCalls>>
    /\ draftEntries' = [draftEntries EXCEPT ![t] =
                          [n \in Names |-> IF AppendsDraft(t, n) THEN 1 ELSE 0]]
    /\ UNCHANGED existing_names
    /\ UNCHANGED termVars

\* =========================================================================
\* terminal.py: one terminal_ws session
\* =========================================================================
Resources == {"bastion", "channel", "target", "shell"}

\* str(node_obj.get_management_ip()) for the three kinds of value the
\* inventory can return: an address, None, or an empty string
StrOfIp(v) ==
    CASE v = "addr"  -> "10.0.0.1"
      [] v = "none"  -> "None"
      [] v = "empty" -> ""
\* "if not management_ip" is taken for the empty string only
Falsy(s) == s = ""

\* websocket.send_text / websocket.close can raise only once the client is gone
SendFailures == IF clientGone THEN BOOLEAN ELSE {FALSE}

\* a setup call raised: control goes to "except Exception as e" (line 157)
SetupExceptionSwallowed == "returned"
SetupExceptionTarget == "except"

\* the order of the close() calls of the finally block
TeardownOrderBastionFirst == <<"bastion", "target", "shell">>
TeardownOrder == <<"shell", "target", "bastion">>

\* the coroutine positions at which terminal_ws is suspended in an await
SetupAwaits == {"start", "lookup", "bastion", "tunnel", "target"}
HandlerSuspended == spc \in SetupAwaits \cup {"no_ip", "no_ip_close", "except",
                                             "except_close", "recv", "returned"}

\* the pseudo-terminal before invoke_shell, and the size invoke_shell asks for
\* when the call names no width and no height
NoPty == <<0, 0>>

ShellDefaultPty == <<80, 24>>

\* no client message handled yet
NoMessage == [kind |-> "none", sends |-> 0, resizes |-> 0, cols |-> 0, rows |-> 0]

\* =========================================================================
\* terminal.py: _load_private_key
\* =========================================================================
\* key_classes, in the order of the list (KeyClassesRsaFirst: RSA tried first)
KeyClassesRsaFirst == <<"RSAKey", "Ed25519Key", "ECDSAKey">>

KeyClasses == <<"Ed25519Key", "ECDSAKey", "RSAKey">>

\* what cls.from_private_key_file(path) can do with a file: return a key, or
\* raise (wrong format for the class, file absent or unreadable, passphrase
\* needed)
KeyErrors == {"bad_format", "io_error", "needs_password"}
KeyOutcomes == {"ok"} \cup KeyErrors

NoKeyResult == <<"none">>
NoError == <<"None", "None">>

\* no key is being loaded
KeyIdle ==
    /\ keyFile = [c \in DOMAIN KeyClasses |-> "ok"]
    /\ keyPos = 0
    /\ keyTried = << >>
    /\ last_err = NoError
    /\ keyResult = NoKeyResult

\* _load_private_key(path) is entered, for any file
KeyInit ==
    /\ keyFile \in [DOMAIN KeyClasses -> KeyOutcomes]
    /\ keyPos = 1
    /\ keyTried = << >>
    /\ last_err = NoError
    /\ keyResult = NoKeyResult

\* one iteration of "for cls in key_classes": try: return
\* cls.from_private_key_file(path); except Exception as e: last_err = e
KeyTry ==
    /\ keyPos \in DOMAIN KeyClasses
    /\ keyResult = NoKeyResult
    /\ keyTried' = Append(keyTried, KeyClasses[keyPos])
    /\ IF keyFile[keyPos] = "ok"
       THEN /\ keyResult' = <<"returned", KeyClasses[keyPos]>>
            /\ UNCHANGED <<last_err, keyPos>>
       ELSE /\ last_err' = <<KeyClasses[keyPos], keyFile[keyPos]>>
            /\ keyPos' = keyPos + 1
            /\ UNCHANGED keyResult
    /\ UNCHANGED keyFile
    /\ UNCHANGED <<draftVars, sessionVars, fabVars>>

\* the loop is over: raise paramiko.SSHException(f"Cannot load key {path}:
\* {last_err}")
KeyRaise ==
    /\ keyPos = Len(KeyClasses) + 1
    /\ keyResult = NoKeyResult
    /\ keyResult' = <<"raised", last_err>>
    /\ UNCHANGED <<keyFile, keyPos, keyTried, last_err>>
    /\ UNCHANGED <<draftVars, sessionVars, fabVars>>

KeyNext == KeyTry \/ KeyRaise

\* =========================================================================
\* fablib_manager.py: get_fablib / reset_fablib
\* =========================================================================
\* what get_fablib gave its caller: nothing yet, an exception, or the value of
\* "return _fablib" (None or an instance)
NotReturned == <<"none">>
Raised == <<"raised">>
Returned(v) == <<"returned", v>>

FabOps == {"get_fablib", "reset_fablib"}

\* module load: _lock = threading.Lock(), _fablib = None; nobody is calling
FabIdle ==
    /\ fablib = None
    /\ fab_lock = NoThread
    /\ rcPresent = TRUE
    /\ fpc = [t \in Threads |-> "done"]
    /\ fop = [t \in Threads |-> "none"]
    /\ fret = [t \in Threads |-> NotReturned]
    /\ fcalls = [t \in Threads |-> 0]
    /\ constructed = 0
    /\ resets = 0

\* the same, in a system that is configured or not
FabStart ==
    /\ fablib = None
    /\ fab_lock = NoThread
    /\ rcPresent \in BOOLEAN
    /\ fpc = [t \in Threads |-> "done"]
    /\ fop = [t \in Threads |-> "none"]
    /\ fret = [t \in Threads |-> NotReturned]
    /\ fcalls = [t \in Threads |-> 0]
    /\ constructed = 0
    /\ resets = 0

\* a thread calls get_fablib() or reset_fablib()
FabCall(t) ==
    /\ fpc[t] = "done"
    /\ fcalls[t] < MaxReqs
    /\ \E o \in FabOps :
         /\ fop' = [fop EXCEPT ![t] = o]
         /\ fpc' = [fpc EXCEPT ![t] = IF o = "get_fablib" THEN "f_check" ELSE "r_lock"]
         /\ resets' = IF o = "reset_fablib" THEN resets + 1 ELSE resets
    /\ fcalls' = [fcalls EXCEPT ![t] = @ + 1]
    /\ fret' = [fret EXCEPT ![t] = NotReturned]
    /\ UNCHANGED <<fablib, fab_lock, rcPresent, constructed>>
    /\ UNCHANGED <<draftVars, sessionVars, keyVars>>

\* line 57: "if _fablib is None:", read without the lock
FabFirstCheck(t) ==
    /\ fpc[t] = "f_check"
    /\ fpc' = [fpc EXCEPT ![t] = IF fablib = None THEN "f_lock" ELSE "f_return"]
    /\ UNCHANGED <<fablib, fab_lock, rcPresent, fop, fret, fcalls, constructed,
                   resets>>
    /\ UNCHANGED <<draftVars, sessionVars, keyVars>>

\* line 59: the test repeated inside the lock
\* (StillUnsetAssumed: the outcome of the first test is relied on)
StillUnsetAssumed == TRUE

StillUnset == fablib = None

\* lines 58-68: "with _lock: if _fablib is None:", then the fabric_rc test;
\* RuntimeError leaves the with block and the function
FabSecondCheck(t) ==
    /\ fpc[t] = "f_lock"
    /\ fab_lock = NoThread
    /\ IF ~StillUnset
       THEN /\ fpc' = [fpc EXCEPT ![t] = "f_return"]
            /\ UNCHANGED <<fab_lock, fret>>
       ELSE IF ~rcPresent
       THEN /\ fpc' = [fpc EXCEPT ![t] = "done"]
            /\ fret' = [fret EXCEPT ![t] = Raised]
            /\ UNCHANGED fab_lock
       ELSE /\ fpc' = [fpc EXCEPT ![t] = "f_construct"]
            /\ fab_lock' = t
            /\ UNCHANGED fret
    /\ UNCHANGED <<fablib, rcPresent, fop, fcalls, constructed, resets>>
    /\ UNCHANGED <<draftVars, sessionVars, keyVars>>

\* lines 70-87: the environment is prepared and _fablib = FablibManager() is
\* assigned, still inside the lock
FabConstructed(t) ==
    /\ fpc[t] = "f_construct"
    /\ constructed < MaxObj
    /\ constructed' = constructed + 1
    /\ fablib' = constructed + 1
    /\ fab_lock' = NoThread
    /\ fpc' = [fpc EXCEPT ![t] = "f_return"]
    /\ UNCHANGED <<rcPresent, fop, fret, fcalls, resets>>
    /\ UNCHANGED <<draftVars, sessionVars, keyVars>>

\* FablibManager() (or reading fabric_rc) raises: the lock is released, the
\* exception reaches the caller, _fablib is not assigned
FabConstructRaises(t) ==
    /\ fpc[t] = "f_construct"
    /\ fab_lock' = NoThread
    /\ fpc' = [fpc EXCEPT ![t] = "done"]
    /\ fret' = [fret EXCEPT ![t] = Raised]
    /\ UNCHANGED <<fablib, rcPresent, fop, fcalls, constructed, resets>>
    /\ UNCHANGED <<draftVars, sessionVars, keyVars>>

\* line 88: "return _fablib", the global read again outside the lock
FabReturned == fablib

FabReturn(t) ==
    /\ fpc[t] = "f_return"
    /\ fret' = [fret EXCEPT ![t] = Returned(FabReturned)]
    /\ fpc' = [fpc EXCEPT ![t] = "done"]
    /\ UNCHANGED <<fablib, fab_lock, rcPresent, fop, fcalls, constructed, resets>>
    /\ UNCHANGED <<draftVars, sessionVars, keyVars>>

\* reset_fablib, lines 40-41: with _lock: _fablib = None
FabReset(t) ==
    /\ fpc[t] = "r_lock"
    /\ fab_lock = NoThread
    /\ fablib' = None
    /\ fpc' = [fpc EXCEPT ![t] = "r_reload"]
    /\ UNCHANGED <<fab_lock, rcPresent, fop, fret, fcalls, constructed, resets>>
    /\ UNCHANGED <<draftVars, sessionVars, keyVars>>

\* reset_fablib, lines 43-48: fabric_rc is loaded into os.environ again
FabReload(t) ==
    /\ fpc[t] = "r_reload"
    /\ fpc' = [fpc EXCEPT ![t] = "done"]
    /\ UNCHANGED <<fablib, fab_lock, rcPresent, fop, fret, fcalls, constructed,
                   resets>>
    /\ UNCHANGED <<draftVars, sessionVars, keyVars>>

FabNext ==
    \E t \in Threads :
        \/ FabCall(t)
        \/ FabFirstCheck(t)
        \/ FabSecondCheck(t)
        \/ FabConstructed(t)
        \/ FabConstructRaises(t)
        \/ FabReturn(t)
        \/ FabReset(t)
        \/ FabReload(t)

TermStart ==
    /\ spc = "start"
    /\ mgmt_ip = "unset"
    /\ res = [r \in Resources |-> "none"]
    /\ bastion = FALSE
    /\ target = FALSE
    /\ clientGone = FALSE
    /\ wsClosed = FALSE
    /\ rstate = "none"
    /\ cancelRequested = FALSE
    /\ shellRemote = "open"
    /\ shellHasData = FALSE
    /\ outcome = "none"
    /\ failedStage = "none"
    /\ errLines = 0
    /\ closeLog = << >>
    /\ endCause = "none"
    /\ failedRead = FALSE
    /\ readsInFlight = 0
    /\ pty = NoPty
    /\ outCount = 0
    /\ readLog = << >>
    /\ sentLog = << >>
    /\ inLog = << >>
    /\ shellWrites = << >>
    /\ lastHandled = NoMessage
    /\ stageLog = << >>

\* a session whose traffic is not recorded, and one whose traffic is
TermInit == TermStart /\ trace = FALSE /\ KeyIdle /\ FabIdle

TermTraceInit == TermStart /\ trace = TRUE /\ KeyIdle /\ FabIdle

\* pc after a progress line was sent (the send raising goes to the except block)
\* (AfterSendSkipsBastion: the tunnel is set up without the bastion stage)
AfterSendSkipsBastion(f, next) ==
    IF f THEN "except" ELSE IF next = "bastion" THEN "tunnel" ELSE next

AfterSend(f, next) == IF f THEN "except" ELSE next

\* the blocking calls of the setup phase, run in the executor
StageCalls == {"call get_slice", "call _connect_bastion", "call _open_tunnel",
               "call _connect_target"}

\* what the handler does between two blocking calls, in program order, on its
\* way into the stage "next": the lines it sends, then the call it starts
\* (StageEventsCallFirst: a call is started before its progress line is sent)
StageEventsCallFirst(next) ==
    CASE next = "lookup"  -> <<"Looking up node", "call get_slice">>
      [] next = "bastion" -> <<"Node found", "Loading SSH keys",
                               "call _connect_bastion", "Connecting to bastion">>
      [] next = "tunnel"  -> <<"Bastion connected.", "Opening tunnel",
                               "call _open_tunnel">>
      [] next = "target"  -> <<"Tunnel established.", "Authenticating",
                               "call _connect_target">>
      [] next = "relay"   -> <<"Connected.">>

StageEvents(next) ==
    CASE next = "lookup"  -> <<"Looking up node", "call get_slice">>
      [] next = "bastion" -> <<"Node found", "Loading SSH keys",
                               "Connecting to bastion", "call _connect_bastion">>
      [] next = "tunnel"  -> <<"Bastion connected.", "Opening tunnel",
                               "call _open_tunnel">>
      [] next = "target"  -> <<"Tunnel established.", "Authenticating",
                               "call _connect_target">>
      [] next = "relay"   -> <<"Connected.">>

\* the part of StageEvents(next) that happens: all of it, or, when a send
\* raises, what stands before that send
Happened(next, f) ==
    LET E == StageEvents(next) IN
    IF f THEN {SubSeq(E, 1, p - 1) : p \in {i \in 1..Len(E) : E[i] \notin StageCalls}}
         ELSE {E}

Logged(next, f) == \E d \in Happened(next, f) : stageLog' = stageLog \o d

\* Step 1: the "Looking up node" line is sent, the lookup starts in the executor
StartLookup ==
    /\ spc = "start"
    /\ \E f \in SendFailures :
         /\ spc' = AfterSend(f, "lookup")
         /\ Logged("lookup", f)
    /\ UNCHANGED <<mgmt_ip, res, bastion, target, clientGone, wsClosed, rstate,
                   cancelRequested, shellRemote, shellHasData, outcome,
                   failedStage, errLines, closeLog, endCause, failedRead>>
    /\ UNCHANGED ioVars
    /\ UNCHANGED keyVars
    /\ UNCHANGED fabVars
    /\ UNCHANGED draftVars

\* get_slice / get_node / get_management_ip raise
LookupRaises ==
    /\ spc = "lookup"
    /\ failedStage' = "lookup"
    /\ spc' = SetupExceptionTarget
    /\ UNCHANGED <<mgmt_ip, res, bastion, target, clientGone, wsClosed, rstate,
                   cancelRequested, shellRemote, shellHasData, outcome,
                   errLines, closeLog, endCause, failedRead>>
    /\ UNCHANGED ioVars
    /\ UNCHANGED stageLog
    /\ UNCHANGED keyVars
    /\ UNCHANGED fabVars
    /\ UNCHANGED draftVars

\* the lookup returns; without a management IP the handler reports and stops,
\* otherwise "Node found", "Loading SSH keys", "Connecting to bastion" are
\* sent and _connect_bastion starts in the executor
LookupReturns ==
    /\ spc = "lookup"
    /\ \E v \in {"addr", "none", "empty"} :
         /\ mgmt_ip' = StrOfIp(v)
         /\ IF Falsy(StrOfIp(v))
            THEN spc' = "no_ip" /\ UNCHANGED stageLog
            ELSE \E f \in SendFailures :
                   /\ spc' = AfterSend(f, "bastion")
                   /\ Logged("bastion", f)
    /\ UNCHANGED <<res, bastion, target, clientGone, wsClosed, rstate,
                   cancelRequested, shellRemote, shellHasData, outcome,
                   failedStage, errLines, closeLog, endCause, failedRead>>
    /\ UNCHANGED ioVars
    /\ UNCHANGED keyVars
    /\ UNCHANGED fabVars
    /\ UNCHANGED draftVars

\* lines 130-132: the "no management IP" error line
NoIpSend ==
    /\ spc = "no_ip"
    /\ errLines' = errLines + 1
    /\ \E f \in SendFailures : spc' = AfterSend(f, "no_ip_close")
    /\ UNCHANGED <<mgmt_ip, res, bastion, target, clientGone, wsClosed, rstate,
                   cancelRequested, shellRemote, shellHasData, outcome,
                   failedStage, closeLog, endCause, failedRead>>
    /\ UNCHANGED ioVars
    /\ UNCHANGED stageLog
    /\ UNCHANGED keyVars
    /\ UNCHANGED fabVars
    /\ UNCHANGED draftVars

\* await websocket.close(); return
NoIpClose ==
    /\ spc = "no_ip_close"
    /\ \E f \in SendFailures :
         /\ spc' = AfterSend(f, "returned")
         /\ wsClosed' = ~f
         /\ outcome' = IF f THEN outcome ELSE "returned"
    /\ UNCHANGED <<mgmt_ip, res, bastion, target, clientGone, rstate,
                   cancelRequested, shellRemote, shellHasData, failedStage,
                   errLines, closeLog, endCause, failedRead>>
    /\ UNCHANGED ioVars
    /\ UNCHANGED stageLog
    /\ UNCHANGED keyVars
    /\ UNCHANGED fabVars
    /\ UNCHANGED draftVars

\* Step 3: _connect_bastion raises, in _load_private_key or in bastion.connect
BastionRaises ==
    /\ spc = "bastion"
    /\ \E k \in {"bastion_key", "bastion_connect"} : failedStage' = k
    /\ spc' = SetupExceptionTarget
    /\ UNCHANGED <<mgmt_ip, res, bastion, target, clientGone, wsClosed, rstate,
                   cancelRequested, shellRemote, shellHasData, outcome,
                   errLines, closeLog, endCause, failedRead>>
    /\ UNCHANGED ioVars
    /\ UNCHANGED stageLog
    /\ UNCHANGED keyVars
    /\ UNCHANGED fabVars
    /\ UNCHANGED draftVars

\* _connect_bastion returns the connected client; "Bastion connected." and
\* "Opening tunnel" are sent and _open_tunnel starts
BastionReturns ==
    /\ spc = "bastion"
    /\ res' = [res EXCEPT !["bastion"] = "open"]
    /\ bastion' = TRUE
    /\ \E f \in SendFailures :
         /\ spc' = AfterSend(f, "tunnel")
         /\ Logged("tunnel", f)
    /\ UNCHANGED <<mgmt_ip, target, clientGone, wsClosed, rstate,
                   cancelRequested, shellRemote, shellHasData, outcome,
                   failedStage, errLines, closeLog, endCause, failedRead>>
    /\ UNCHANGED ioVars
    /\ UNCHANGED keyVars
    /\ UNCHANGED fabVars
    /\ UNCHANGED draftVars

\* Step 4: open_channel("direct-tcpip", ...) raises
TunnelRaises ==
    /\ spc = "tunnel"
    /\ failedStage' = "tunnel"
    /\ spc' = SetupExceptionTarget
    /\ UNCHANGED <<mgmt_ip, res, bastion, target, clientGone, wsClosed, rstate,
                   cancelRequested, shellRemote, shellHasData, outcome,
                   errLines, closeLog, endCause, failedRead>>
    /\ UNCHANGED ioVars
    /\ UNCHANGED stageLog
    /\ UNCHANGED keyVars
    /\ UNCHANGED fabVars
    /\ UNCHANGED draftVars

\* the forwarded channel is open; "Tunnel established." and "Authenticating"
\* are sent and _connect_target starts
TunnelReturns ==
    /\ spc = "tunnel"
    /\ res' = [res EXCEPT !["channel"] = "open"]
    /\ \E f \in SendFailures :
         /\ spc' = AfterSend(f, "target")
         /\ Logged("target", f)
    /\ UNCHANGED <<mgmt_ip, bastion, target, clientGone, wsClosed, rstate,
                   cancelRequested, shellRemote, shellHasData, outcome,
                   failedStage, errLines, closeLog, endCause, failedRead>>
    /\ UNCHANGED ioVars
    /\ UNCHANGED keyVars
    /\ UNCHANGED fabVars
    /\ UNCHANGED draftVars

\* Step 5: _connect_target raises: loading the slice key, target.connect, or
\* invoke_shell / setblocking after target.connect succeeded (the connected
\* client is then known to _connect_target only)
TargetRaises ==
    /\ spc = "target"
    /\ \E k \in {"slice_key", "target_auth", "shell"} :
         /\ failedStage' = k
         /\ res' = IF k = "shell" THEN [res EXCEPT !["target"] = "open"] ELSE res
    /\ spc' = SetupExceptionTarget
    /\ UNCHANGED <<mgmt_ip, bastion, target, clientGone, wsClosed, rstate,
                   cancelRequested, shellRemote, shellHasData, outcome,
                   errLines, closeLog, endCause, failedRead>>
    /\ UNCHANGED ioVars
    /\ UNCHANGED stageLog
    /\ UNCHANGED keyVars
    /\ UNCHANGED fabVars
    /\ UNCHANGED draftVars

\* _connect_target returns (target, shell); "Connected." is sent
TargetReturns ==
    /\ spc = "target"
    /\ res' = [res EXCEPT !["target"] = "open", !["shell"] = "open"]
    /\ target' = TRUE
    /\ \E f \in SendFailures :
         /\ spc' = AfterSend(f, "relay")
         /\ Logged("relay", f)
    /\ pty' = ShellDefaultPty
    /\ UNCHANGED <<mgmt_ip, bastion, clientGone, wsClosed, rstate,
                   cancelRequested, shellRemote, shellHasData, outcome,
                   failedStage, errLines, closeLog, endCause, failedRead>>
    /\ UNCHANGED <<readsInFlight, trace, outCount, readLog, sentLog, inLog,
                   shellWrites, lastHandled>>
    /\ UNCHANGED keyVars
    /\ UNCHANGED fabVars
    /\ UNCHANGED draftVars

\* except Exception: the "SSH connection failed" line is sent; if the send
\* raises, the exception leaves terminal_ws
ExceptSend ==
    /\ spc = "except"
    /\ errLines' = errLines + 1
    /\ \E f \in SendFailures :
         /\ spc' = IF f THEN "returned" ELSE "except_close"
         /\ outcome' = IF f THEN "raised" ELSE outcome
    /\ UNCHANGED <<mgmt_ip, res, bastion, target, clientGone, wsClosed, rstate,
                   cancelRequested, shellRemote, shellHasData, failedStage,
                   closeLog, endCause, failedRead>>
    /\ UNCHANGED ioVars
    /\ UNCHANGED stageLog
    /\ UNCHANGED keyVars
    /\ UNCHANGED fabVars
    /\ UNCHANGED draftVars

\* await websocket.close(); then "if bastion:" decides about bastion.close()
ExceptClose ==
    /\ spc = "except_close"
    /\ \E f \in SendFailures :
         /\ wsClosed' = ~f
         /\ spc' = IF ~f /\ bastion THEN "except_bastion" ELSE "returned"
         /\ outcome' = IF f THEN "raised" ELSE IF bastion THEN outcome ELSE "returned"
    /\ UNCHANGED <<mgmt_ip, res, bastion, target, clientGone, rstate,
                   cancelRequested, shellRemote, shellHasData, failedStage,
                   errLines, closeLog, endCause, failedRead>>
    /\ UNCHANGED ioVars
    /\ UNCHANGED stageLog
    /\ UNCHANGED keyVars
    /\ UNCHANGED fabVars
    /\ UNCHANGED draftVars

\* try: bastion.close() except Exception: pass; return
ExceptBastion ==
    /\ spc = "except_bastion"
    /\ closeLog' = Append(closeLog, "bastion")
    /\ \E raised \in BOOLEAN :
         res' = IF raised THEN res ELSE [res EXCEPT !["bastion"] = "closed"]
    /\ spc' = "returned"
    /\ outcome' = "returned"
    /\ UNCHANGED <<mgmt_ip, bastion, target, clientGone, wsClosed, rstate,
                   cancelRequested, shellRemote, shellHasData, failedStage,
                   errLines, endCause, failedRead>>
    /\ UNCHANGED ioVars
    /\ UNCHANGED stageLog
    /\ UNCHANGED keyVars
    /\ UNCHANGED fabVars
    /\ UNCHANGED draftVars

\* ------------------------------------------------------------- relay loop
\* read_task = asyncio.create_task(read_ssh()); the handler then awaits the
\* first client message
\* positions of terminal_ws whose step creates a read_ssh task: line 182 stands
\* before the while loop (ReadTaskCreatedInLoop: it stands inside the loop)
ReadTaskCreatedInLoop == {"relay", "recv"}

ReadTaskCreatedAt == {"relay"}

RelayStart ==
    /\ spc = "relay"
    /\ spc \in ReadTaskCreatedAt
    /\ rstate' = "read"
    /\ readsInFlight' = readsInFlight + 1
    /\ spc' = "recv"
    /\ UNCHANGED <<mgmt_ip, res, bastion, target, clientGone, wsClosed,
                   cancelRequested, shellRemote, shellHasData, outcome,
                   failedStage, errLines, closeLog, endCause, failedRead>>
    /\ UNCHANGED <<pty, trace, outCount, readLog, sentLog, inLog, shellWrites,
                   lastHandled>>
    /\ UNCHANGED stageLog
    /\ UNCHANGED keyVars
    /\ UNCHANGED fabVars
    /\ UNCHANGED draftVars

\* the shell channel can no longer be read or written
ShellDead == shellRemote = "closed" \/ res["shell"] = "closed"

\* _read_shell in the thread pool: recv_ready() / recv(4096), every exception
\* swallowed into ""
ReadShellResult == IF shellHasData /\ ~ShellDead THEN "got_data" ELSE "got_empty"

\* the chunks read so far once this _read_shell call has returned: the pending
\* output of the shell is one more chunk, "" is none
ChunkRead ==
    IF trace /\ ReadShellResult = "got_data"
    THEN Append(readLog, outCount)
    ELSE readLog

\* the executor thread finishes _read_shell (it runs whatever the coroutines do)
ReadThreadFinishes ==
    /\ rstate = "read"
    /\ rstate' = ReadShellResult
    /\ shellHasData' = FALSE
    /\ failedRead' = (failedRead \/ ShellDead)
    /\ readsInFlight' = readsInFlight - 1
    /\ readLog' = ChunkRead
    /\ UNCHANGED <<spc, mgmt_ip, res, bastion, target, clientGone, wsClosed,
                   cancelRequested, shellRemote, outcome, failedStage,
                   errLines, closeLog, endCause>>
    /\ UNCHANGED <<pty, trace, outCount, sentLog, inLog, shellWrites, lastHandled>>
    /\ UNCHANGED stageLog
    /\ UNCHANGED keyVars
    /\ UNCHANGED fabVars
    /\ UNCHANGED draftVars

\* the read_ssh task is already cancelled, but the thread it had started keeps
\* running _read_shell to its end; nobody takes its result
OrphanReadFinishes ==
    /\ rstate = "cancelled"
    /\ readsInFlight > 0
    /\ readsInFlight' = readsInFlight - 1
    /\ shellHasData' = FALSE
    /\ readLog' = ChunkRead
    /\ UNCHANGED <<spc, mgmt_ip, res, bastion, target, clientGone, wsClosed,
                   rstate, cancelRequested, shellRemote, outcome, failedStage,
                   errLines, closeLog, endCause, failedRead>>
    /\ UNCHANGED <<pty, trace, outCount, sentLog, inLog, shellWrites, lastHandled>>
    /\ UNCHANGED stageLog
    /\ UNCHANGED keyVars
    /\ UNCHANGED fabVars
    /\ UNCHANGED draftVars

\* read_ssh resumes with the data: "if data: await websocket.send_text(data)
\* else: await asyncio.sleep(0.05)"
ReaderResumes ==
    /\ rstate \in {"got_data", "got_empty"}
    /\ HandlerSuspended
    /\ ~cancelRequested
    /\ rstate' = IF rstate = "got_data" THEN "send" ELSE "sleep"
    /\ UNCHANGED <<spc, mgmt_ip, res, bastion, target, clientGone, wsClosed,
                   cancelRequested, shellRemote, shellHasData, outcome,
                   failedStage, errLines, closeLog, endCause, failedRead>>
    /\ UNCHANGED ioVars
    /\ UNCHANGED stageLog
    /\ UNCHANGED keyVars
    /\ UNCHANGED fabVars
    /\ UNCHANGED draftVars

\* the text read_ssh passes to send_text: its local "data", the chunk the last
\* read returned (ChunkSentStale: the first chunk ever read)
ChunkSentStale(log) == log[1]

ChunkSent(log) == log[Len(log)]

\* send_text returns and the loop starts the next read; or it raises and
\* "except Exception: break" ends the task
ReaderSent ==
    /\ rstate = "send"
    /\ HandlerSuspended
    /\ ~cancelRequested
    /\ \E f \in SendFailures :
         /\ rstate' = IF f THEN "ended" ELSE "read"
         /\ readsInFlight' = IF f THEN readsInFlight ELSE readsInFlight + 1
         /\ sentLog' = IF trace /\ ~f THEN Append(sentLog, ChunkSent(readLog))
                       ELSE sentLog
    /\ UNCHANGED <<spc, mgmt_ip, res, bastion, target, clientGone, wsClosed,
                   cancelRequested, shellRemote, shellHasData, outcome,
                   failedStage, errLines, closeLog, endCause, failedRead>>
    /\ UNCHANGED <<pty, trace, outCount, readLog, inLog, shellWrites, lastHandled>>
    /\ UNCHANGED stageLog
    /\ UNCHANGED keyVars
    /\ UNCHANGED fabVars
    /\ UNCHANGED draftVars

\* the 50 ms sleep is over: next read
ReaderWakes ==
    /\ rstate = "sleep"
    /\ HandlerSuspended
    /\ ~cancelRequested
    /\ rstate' = "read"
    /\ readsInFlight' = readsInFlight + 1
    /\ UNCHANGED <<spc, mgmt_ip, res, bastion, target, clientGone, wsClosed,
                   cancelRequested, shellRemote, shellHasData, outcome,
                   failedStage, errLines, closeLog, endCause, failedRead>>
    /\ UNCHANGED <<pty, trace, outCount, readLog, sentLog, inLog, shellWrites,
                   lastHandled>>
    /\ UNCHANGED stageLog
    /\ UNCHANGED keyVars
    /\ UNCHANGED fabVars
    /\ UNCHANGED draftVars

\* after read_task.cancel() the task resumes with CancelledError, which
\* "except Exception" does not catch
ReaderCancelled ==
    /\ rstate \in {"read", "got_data", "got_empty", "send", "sleep"}
    /\ cancelRequested
    /\ HandlerSuspended
    /\ rstate' = "cancelled"
    /\ UNCHANGED <<spc, mgmt_ip, res, bastion, target, clientGone, wsClosed,
                   cancelRequested, shellRemote, shellHasData, outcome,
                   failedStage, errLines, closeLog, endCause, failedRead>>
    /\ UNCHANGED ioVars
    /\ UNCHANGED stageLog
    /\ UNCHANGED keyVars
    /\ UNCHANGED fabVars
    /\ UNCHANGED draftVars

\* leaving the while loop by "break": read_task.cancel() runs, then the finally
\* (AfterBreakNoCancel: the loop left without that call)
AfterBreakNoCancel == FALSE
AfterBreakCancels == TRUE

\* the texts a client can send: a JSON object with type "input" (with or
\* without "data"), with type "resize", with another type or none ("other");
\* a JSON value that is no object, such as 5, [] or null ("not_object"); a text
\* that is no JSON ("bad_json")
MessageKinds == {"input", "resize", "other", "not_object", "bad_json",
                 "input_no_data"}
\* json.loads raises, parsed.get raises AttributeError (json.loads returned a
\* value that is no dict), or parsed["data"] raises KeyError
Malformed(k) == k \in {"bad_json", "not_object", "input_no_data"}
\* the message makes the handler call shell.send / shell.resize_pty
TouchesShell(k) == k \in {"input", "resize"}

\* a key the JSON object does not have
Missing == 0

\* the client messages: "data" of an input message, "cols" and "rows" of a
\* resize message (each possibly missing)
InputData == {"a", "b"}
ColsSent == {Missing, 100}
RowsSent == {Missing, 40}

Messages ==
    {[kind |-> "input", data |-> d, cols |-> Missing, rows |-> Missing] :
        d \in InputData}
    \cup {[kind |-> "resize", data |-> "", cols |-> c, rows |-> r] :
        c \in ColsSent, r \in RowsSent}
    \cup {[kind |-> k, data |-> "", cols |-> Missing, rows |-> Missing] :
        k \in MessageKinds \ {"input", "resize"}}

\* parsed.get("cols", 80) and parsed.get("rows", 24)
\* (ResizeWidthSwapped: the two defaults exchanged)
ResizeWidthSwapped(m) == IF m.cols = Missing THEN 24 ELSE m.cols

ResizeWidth(m) == IF m.cols = Missing THEN 80 ELSE m.cols

ResizeHeight(m) == IF m.rows = Missing THEN 24 ELSE m.rows

\* the arguments of the shell.send calls a message causes
\* (ShellSendsEcho: the text is written twice)
ShellSendsEcho(m) == IF m.kind = "input" THEN <<m.data, m.data>> ELSE << >>

ShellSends(m) == IF m.kind = "input" THEN <<m.data>> ELSE << >>

\* the number of shell.resize_pty calls a message causes
\* (ShellResizesElse: "else:" in the place of "elif type == resize:")
ShellResizesElse(m) == IF m.kind # "input" THEN 1 ELSE 0

ShellResizes(m) == IF m.kind = "resize" THEN 1 ELSE 0

\* what leaving the loop after a failed shell call is recorded as, and where
\* the handler goes: "except Exception: break"
\* (OnShellErrorContinue: the loop goes on to the next message)
OnShellErrorContinue == "recv"

OnShellError == "fin1"

\* receive_text returns a message; it is decoded and dispatched; any exception
\* breaks out of the loop
RecvMessage ==
    /\ spc = "recv"
    /\ ~clientGone
    /\ \E m \in Messages, shellRaises \in (IF ShellDead THEN BOOLEAN ELSE {FALSE}) :
         /\ (trace /\ m.kind = "input") => Len(inLog) < MaxIn
         /\ IF Malformed(m.kind)
            THEN /\ endCause' = "recv_error"
                 /\ cancelRequested' = AfterBreakCancels
                 /\ spc' = "fin1"
            ELSE IF TouchesShell(m.kind) /\ shellRaises
            THEN /\ endCause' = "shell_error"
                 /\ cancelRequested' = (OnShellError = "fin1" /\ AfterBreakCancels)
                 /\ spc' = OnShellError
            ELSE UNCHANGED <<endCause, cancelRequested, spc>>
         /\ pty' = IF m.kind = "resize" /\ ~shellRaises
                   THEN <<ResizeWidth(m), ResizeHeight(m)>>
                   ELSE pty
         /\ inLog' = IF trace /\ m.kind = "input" THEN Append(inLog, m.data)
                     ELSE inLog
         /\ shellWrites' = IF trace /\ ~Malformed(m.kind)
                           THEN shellWrites \o ShellSends(m)
                           ELSE shellWrites
         /\ lastHandled' =
              IF trace
              THEN [kind |-> m.kind,
                    sends |-> IF Malformed(m.kind) THEN 0 ELSE Len(ShellSends(m)),
                    resizes |-> IF Malformed(m.kind) THEN 0 ELSE ShellResizes(m),
                    cols |-> m.cols, rows |-> m.rows]
              ELSE lastHandled
    /\ readsInFlight' = IF spc \in ReadTaskCreatedAt THEN readsInFlight + 1
                        ELSE readsInFlight
    /\ UNCHANGED <<mgmt_ip, res, bastion, target, clientGone, wsClosed, rstate,
                   shellRemote, shellHasData, outcome, failedStage, errLines,
                   closeLog, failedRead>>
    /\ UNCHANGED <<trace, outCount, readLog, sentLog>>
    /\ UNCHANGED stageLog
    /\ UNCHANGED keyVars
    /\ UNCHANGED fabVars
    /\ UNCHANGED draftVars

\* receive_text raises WebSocketDisconnect: break
RecvDisconnect ==
    /\ spc = "recv"
    /\ clientGone
    /\ endCause' = "disconnect"
    /\ cancelRequested' = AfterBreakCancels
    /\ spc' = "fin1"
    /\ UNCHANGED <<mgmt_ip, res, bastion, target, clientGone, wsClosed, rstate,
                   shellRemote, shellHasData, outcome, failedStage, errLines,
                   closeLog, failedRead>>
    /\ UNCHANGED ioVars
    /\ UNCHANGED stageLog
    /\ UNCHANGED keyVars
    /\ UNCHANGED fabVars
    /\ UNCHANGED draftVars

\* the handler task is cancelled while awaiting receive_text: CancelledError
\* is no Exception, so neither except clause catches it and line 200 is
\* skipped; only the finally block runs
RecvCancelled ==
    /\ spc = "recv"
    /\ endCause' = "cancelled"
    /\ spc' = "fin1"
    /\ UNCHANGED <<mgmt_ip, res, bastion, target, clientGone, wsClosed, rstate,
                   cancelRequested, shellRemote, shellHasData, outcome,
                   failedStage, errLines, closeLog, failedRead>>
    /\ UNCHANGED ioVars
    /\ UNCHANGED stageLog
    /\ UNCHANGED keyVars
    /\ UNCHANGED fabVars
    /\ UNCHANGED draftVars

\* the handler task is cancelled at an await before the relay loop (a setup
\* step, or a send / close of the error paths): nothing catches CancelledError
SetupCancelled ==
    /\ spc \in SetupAwaits \cup {"no_ip", "no_ip_close", "except", "except_close"}
    /\ spc' = "returned"
    /\ outcome' = "cancelled"
    /\ UNCHANGED <<mgmt_ip, res, bastion, target, clientGone, wsClosed, rstate,
                   cancelRequested, shellRemote, shellHasData, failedStage,
                   errLines, closeLog, endCause, failedRead>>
    /\ UNCHANGED ioVars
    /\ UNCHANGED stageLog
    /\ UNCHANGED keyVars
    /\ UNCHANGED fabVars
    /\ UNCHANGED draftVars

\* ---------------------------------------------------------------- teardown
TeardownLabels == <<"fin1", "fin2", "fin3">>
TeardownIndex == CHOOSE i \in 1..3 : TeardownLabels[i] = spc

\* finally: three "try: x.close() except Exception: pass" in a row
TeardownClose ==
    /\ spc \in {"fin1", "fin2", "fin3"}
    /\ LET r == TeardownOrder[TeardownIndex] IN
         /\ closeLog' = Append(closeLog, r)
         /\ \E raised \in BOOLEAN :
              res' = IF raised THEN res ELSE [res EXCEPT ![r] = "closed"]
    /\ spc' = IF spc = "fin3" THEN "returned" ELSE TeardownLabels[TeardownIndex + 1]
    /\ outcome' = IF spc = "fin3"
                  THEN (IF endCause = "cancelled" THEN "cancelled" ELSE "returned")
                  ELSE outcome
    /\ UNCHANGED <<mgmt_ip, bastion, target, clientGone, wsClosed, rstate,
                   cancelRequested, shellRemote, shellHasData, failedStage,
                   errLines, endCause, failedRead>>
    /\ UNCHANGED ioVars
    /\ UNCHANGED stageLog
    /\ UNCHANGED keyVars
    /\ UNCHANGED fabVars
    /\ UNCHANGED draftVars

\* ------------------------------------------------------------ environment
ClientDisconnects ==
    /\ ~clientGone
    /\ outcome = "none"
    /\ clientGone' = TRUE
    /\ UNCHANGED <<spc, mgmt_ip, res, bastion, target, wsClosed, rstate,
                   cancelRequested, shellRemote, shellHasData, outcome,
                   failedStage, errLines, closeLog, endCause, failedRead>>
    /\ UNCHANGED ioVars
    /\ UNCHANGED stageLog
    /\ UNCHANGED keyVars
    /\ UNCHANGED fabVars
    /\ UNCHANGED draftVars

\* the remote shell exits: the channel is closed from the far end
RemoteShellExits ==
    /\ res["shell"] = "open"
    /\ shellRemote = "open"
    /\ shellRemote' = "closed"
    /\ UNCHANGED <<spc, mgmt_ip, res, bastion, target, clientGone, wsClosed,
                   rstate, cancelRequested, shellHasData, outcome, failedStage,
                   errLines, closeLog, endCause, failedRead>>
    /\ UNCHANGED ioVars
    /\ UNCHANGED stageLog
    /\ UNCHANGED keyVars
    /\ UNCHANGED fabVars
    /\ UNCHANGED draftVars

\* the remote shell produces output
ShellOutput ==
    /\ res["shell"] = "open"
    /\ shellRemote = "open"
    /\ ~shellHasData
    /\ trace => outCount < MaxOut
    /\ shellHasData' = TRUE
    /\ outCount' = IF trace THEN outCount + 1 ELSE outCount
    /\ UNCHANGED <<spc, mgmt_ip, res, bastion, target, clientGone, wsClosed,
                   rstate, cancelRequested, shellRemote, outcome, failedStage,
                   errLines, closeLog, endCause, failedRead>>
    /\ UNCHANGED <<readsInFlight, pty, trace, readLog, sentLog, inLog,
                   shellWrites, lastHandled>>
    /\ UNCHANGED stageLog
    /\ UNCHANGED keyVars
    /\ UNCHANGED fabVars
    /\ UNCHANGED draftVars

\* ---------------------------------------------------------- specifications
DraftNext ==
    \E t \in Threads :
        \/ Begin(t)
        \/ StoreWrite1(t)
        \/ StoreWrite2(t)
        \/ PopRemove1(t)
        \/ PopRemove2(t)
        \/ GetDraft(t)
        \/ IsDraftCheck(t)
        \/ SerializeIsDraft(t)
        \/ SerializeIsNew(t)
        \/ FetchReturns(t)
        \/ UpstreamRaises(t)
        \/ UpdateReturns(t)
        \/ EditReturns(t)
        \/ DeleteReturns(t)
        \/ SubmitReturns(t)
        \/ SubmitRaises(t)
        \/ GetSlicesReturns(t)
        \/ ListScan(t)

\* the steps of the terminal_ws coroutine that need no outside event
TermHandlerNext ==
    \/ StartLookup
    \/ LookupRaises
    \/ LookupReturns
    \/ NoIpSend
    \/ NoIpClose
    \/ BastionRaises
    \/ BastionReturns
    \/ TunnelRaises
    \/ TunnelReturns
    \/ TargetRaises
    \/ TargetReturns
    \/ ExceptSend
    \/ ExceptClose
    \/ ExceptBastion
    \/ RelayStart
    \/ RecvDisconnect
    \/ TeardownClose

\* the steps of the read_ssh task and of its executor thread
TermReaderNext ==
    \/ ReadThreadFinishes
    \/ OrphanReadFinishes
    \/ ReaderResumes
    \/ ReaderSent
    \/ ReaderWakes
    \/ ReaderCancelled

\* what the client, the remote host and the server's shutdown do
TermEnvNext ==
    \/ RecvMessage
    \/ RecvCancelled
    \/ SetupCancelled
    \/ ClientDisconnects
    \/ RemoteShellExits
    \/ ShellOutput

TermNext == TermHandlerNext \/ TermReaderNext \/ TermEnvNext

Init == DraftInit /\ TermInit

DraftSpec == Init /\ [][DraftNext]_vars
TermSpec == Init /\ [][TermNext]_vars
\* the event loop keeps running each runnable coroutine and the thread pool its
\* jobs; nothing obliges the client or the remote host to act
TermFairSpec == TermSpec /\ WF_vars(TermHandlerNext) /\ WF_vars(TermReaderNext)

\* one call of the key loader
KeyLoadInit == DraftInit /\ TermStart /\ trace = FALSE /\ KeyInit /\ FabIdle

\* threads calling get_fablib and reset_fablib
FabInit == DraftInit /\ TermStart /\ trace = FALSE /\ KeyIdle /\ FabStart

FabSpec == FabInit /\ [][FabNext]_vars

KeySpec == KeyLoadInit /\ [][KeyNext]_vars

\* one terminal session whose shell traffic is recorded
TraceInit == DraftInit /\ TermTraceInit

TermIOSpec == TraceInit /\ [][TermNext]_vars

\* =========================================================================
\* Properties of the draft store (checked under DraftSpec)
\* =========================================================================

\* C1: exactly-once take. Of the _pop_draft(n) calls made since the last
\* completed _store_draft(n, p, b), in any interleaving, the first returns
\* (p, b) and every other one returns (None, True); with no put at all every
\* call returns (None, True).
C1_TakeExactlyOnce ==
    \A n \in Names : \A i \in 1..Len(popLog[n]) :
        popLog[n][i] = IF i = 1 /\ lastPut[n] # << >>
                       THEN lastPut[n] ELSE <<None, TRUE>>

\* two takes after one put: the first got the record, the second (absent, true)
C1_Witness ==
    \E n \in Names :
        /\ Len(popLog[n]) >= 2
        /\ lastPut[n] # << >>
        /\ lastPut[n][2] = FALSE
        /\ popLog[n][1] = lastPut[n]
        /\ popLog[n][2] = <<None, TRUE>>

\* C2: submit_slice whose upstream submit raised has, when it returns its
\* error, put the record back with the payload and the is_new flag it took,
\* for either value of the flag, unless another request wrote the entry of
\* that name after the take.
C2_FailedSubmitRestores ==
    \A t \in Threads :
        (pc[t] = "done" /\ op[t] = "submit_slice" /\ result[t] = "500"
            /\ ~interfered[t])
        => /\ nm[t] \in DOMAIN draft_slices
           /\ draft_slices[nm[t]] = slice_obj[t]
           /\ nm[t] \in DOMAIN draft_is_new
           /\ draft_is_new[nm[t]] = is_new[t]

\* a failed submit of a loaded draft (is_new = False) has returned
C2_Witness ==
    \E t \in Threads :
        /\ pc[t] = "done" /\ op[t] = "submit_slice" /\ result[t] = "500"
        /\ ~interfered[t]
        /\ slice_obj[t] # None
        /\ is_new[t] = FALSE

\* C3: once a record exists for a name, no step of a get_slice or create_slice
\* request replaces its payload by a different object.
C3_NoClobber ==
    [][\A t \in Threads :
          (pc'[t] # pc[t] /\ op[t] \in {"get_slice", "create_slice"})
          => \A n \in Names :
                (n \in DOMAIN draft_slices /\ n \in DOMAIN draft_slices')
                => draft_slices'[n] = draft_slices[n]]_vars

\* positions at which the next step of the thread reads or writes the table
AccessLabels == Store1Labels \cup Pop1Labels \cup
                {"g_get_draft", "g_is_draft", "ser_is_draft", "ser_is_new", "l_scan"}

\* C4: the store operations are atomic with respect to each other: whenever a
\* thread starts a table operation, no other thread is between the two
\* writes of a put or the two removals of a take.
C4_StoreOpsAtomic ==
    [][\A t \in Threads :
          (pc[t] \in AccessLabels /\ pc'[t] # pc[t])
          => \A u \in Threads \ {t} : pc[u] \notin InsideLock]_vars

\* a thread is inside a put or take while another one wants the table
C4_Witness ==
    \E t, u \in Threads :
        /\ t # u
        /\ pc[t] \in InsideLock
        /\ draft_lock = t
        /\ pc[u] \in AccessLabels

\* C5: a thread inside an upstream call does not hold _draft_lock, and while
\* submit_slice's upstream submit is in progress the record it took is not in
\* the table.
C5_NoLockAcrossUpstream ==
    \A t \in Threads :
        pc[t] \in UpstreamLabels
        => /\ draft_lock # t
           /\ pc[t] = "s_submit"
              => ~(nm[t] \in DOMAIN draft_slices
                   /\ draft_slices[nm[t]] = slice_obj[t])

\* a _store_draft(n, ...) call has written the payload and not yet the flag
StoreInProgress(n) == \E u \in Threads : pc[u] \in Store2Labels /\ nm[u] = n

\* C19: _store_draft(n, p, b) followed by _pop_draft(n), with no operation on
\* n in between, returns exactly (p, b), for b true and b false, and leaves no
\* record for n: the first take after a completed put returned what was put,
\* and once a take has followed the put both tables are without n until the
\* next put begins.
C19_PutThenTake ==
    \A n \in Names :
        (lastPut[n] # << >> /\ popLog[n] # << >>) =>
            /\ popLog[n][1] = lastPut[n]
            /\ ~StoreInProgress(n) =>
                   (n \notin DOMAIN draft_slices /\ n \notin DOMAIN draft_is_new)

\* a new draft (b true) was put and taken once: gone from both tables
C19_Witness ==
    \E n \in Names :
        /\ lastPut[n] # << >>
        /\ lastPut[n][1] # None
        /\ lastPut[n][2] = TRUE
        /\ popLog[n] = <<lastPut[n]>>
        /\ n \notin DOMAIN draft_slices
        /\ n \notin DOMAIN draft_is_new

\* refresh_slice(n) of thread t has returned its 200 answer and no other
\* request has written the entry of n since t took the record
RefreshCompleted(t) ==
    /\ pc[t] = "done"
    /\ op[t] = "refresh_slice"
    /\ result[t] = "200"
    /\ ~interfered[t]

\* C20: the refresh pattern leaves isNew false: when refresh_slice(n) has
\* completed, whatever it took before the reload (no record, a new draft or a
\* loaded draft), the store holds for n the reloaded object with is_new false.
C20_RefreshLeavesLoaded ==
    \A t \in Threads :
        RefreshCompleted(t) =>
            /\ nm[t] \in DOMAIN draft_slices
            /\ nm[t] \in DOMAIN draft_is_new
            /\ draft_slices[nm[t]] = slice_obj[t]
            /\ draft_is_new[nm[t]] = FALSE

\* the other thread created a new draft (flag true), this one refreshed it
C20_Witness ==
    \E t \in Threads, u \in Threads :
        /\ u # t
        /\ RefreshCompleted(t)
        /\ op[u] = "create_slice" /\ pc[u] = "done" /\ result[u] = "200"
        /\ reqs[t] = 1 /\ reqs[u] = 1
        /\ is_new[t] = TRUE
        /\ draft_is_new[nm[t]] = FALSE

\* thread t takes its step out of label l in the step considered
Leaves(t, l) == pc[t] = l /\ pc'[t] # l

\* C21: discarding a new draft: when delete_slice(n) takes a record whose
\* is_new is true (a draft made by create_slice), it answers at once, has made
\* no upstream call (no submit, no delete, no fetch), nobody's upstream calls
\* for n have grown, and _is_draft(n) is false afterwards.
C21_DiscardNewDraft ==
    [][\A t \in Threads :
          (Leaves(t, "d_pop2") /\ slice_obj[t] # None
             /\ DictGet(draft_is_new, nm[t], TRUE)) =>
                /\ pc'[t] = "done"
                /\ result'[t] = "200"
                /\ myCalls'[t] = {}
                /\ upstreamCalls' = upstreamCalls
                /\ nm[t] \notin DOMAIN draft_slices'
                /\ nm[t] \notin DOMAIN draft_is_new']_vars

\* create_slice, then delete_slice: no record, no upstream submit or delete
C21_Witness ==
    \E t \in Threads :
        /\ pc[t] = "done" /\ op[t] = "delete_slice" /\ result[t] = "200"
        /\ myCalls[t] = {}
        /\ lastPut[nm[t]] # << >> /\ lastPut[nm[t]][2] = TRUE
        /\ popLog[nm[t]] = <<lastPut[nm[t]]>>
        /\ nm[t] \notin DOMAIN draft_slices
        /\ upstreamCalls[nm[t]] = {}

\* thread t runs a store lookup for a name the table read does not hold
NoRecordSlices(t) == nm[t] \notin DOMAIN draft_slices
NoRecordFlags(t) == nm[t] \notin DOMAIN draft_is_new

\* C22: for a name with no record the store operations return their "absent"
\* results and leave both tables as they were: _pop_draft gives (None, True),
\* _get_draft gives None, _is_draft gives False (its callers continue as for
\* "no draft"); none of them has a raising outcome.
C22_AbsentNameUntouched ==
    [][\A t \in Threads :
          /\ (\E l \in Pop1Labels : Leaves(t, l)) /\ NoRecordSlices(t) =>
                 (slice_obj'[t] = None /\ draft_slices' = draft_slices
                  /\ draft_is_new' = draft_is_new)
          /\ (\E l \in Pop2Labels : Leaves(t, l)) /\ NoRecordFlags(t) =>
                 (is_new'[t] = TRUE /\ draft_slices' = draft_slices
                  /\ draft_is_new' = draft_is_new)
          /\ (\E l \in {"g_get_draft", "e_get_draft"} : Leaves(t, l))
               /\ NoRecordSlices(t) =>
                 (slice_obj'[t] = None /\ pc'[t] \in {"g_fetch", "e_fetch"}
                  /\ draft_slices' = draft_slices /\ draft_is_new' = draft_is_new)
          /\ (Leaves(t, "g_is_draft") \/ Leaves(t, "ser_is_draft"))
               /\ NoRecordSlices(t) =>
                 (pc'[t] \in {"g_store1", "done"}
                  /\ draft_slices' = draft_slices /\ draft_is_new' = draft_is_new)]_vars

\* a take on an empty store has returned (None, True) and the store is empty
C22_Witness ==
    \E t \in Threads :
        /\ pc[t] = "done" /\ op[t] = "submit_slice" /\ result[t] = "400"
        /\ slice_obj[t] = None /\ is_new[t] = TRUE
        /\ draft_slices = << >> /\ draft_is_new = << >>
        /\ lastPut[nm[t]] = << >>

\* C23: a draft record is authoritative over the upstream copy: whenever
\* _get_slice_obj(n) runs while a record for n exists, it returns that record's
\* payload and the caller goes on without an upstream fetch (no fresh object is
\* handed out, and the request has fetched nothing when it continues).
C23_DraftAuthoritative ==
    [][\A t \in Threads :
          ((Leaves(t, "g_get_draft") \/ Leaves(t, "e_get_draft"))
             /\ nm[t] \in DOMAIN draft_slices) =>
                /\ slice_obj'[t] = draft_slices[nm[t]]
                /\ pc'[t] \in {"g_is_draft", "e_mutate"}
                /\ nextObj' = nextObj
                /\ myCalls'[t] = {}]_vars

\* an edit served from the draft: the payload is the stored one, no fetch made
C23_Witness ==
    \E t \in Threads :
        /\ pc[t] = "done" /\ op[t] \in EditOps /\ result[t] = "200"
        /\ nm[t] \in DOMAIN draft_slices
        /\ slice_obj[t] = draft_slices[nm[t]]
        /\ myCalls[t] = {"add_node"}

\* thread t has completed an editing request, the only request it has issued
OnlyEdited(t) ==
    pc[t] = "done" /\ op[t] \in EditOps /\ result[t] = "200" /\ reqs[t] = 1

\* C24: editing requests on one name, with no submit, refresh or discard
\* between them, all operate on one and the same payload object and the
\* upstream system is not fetched again for each of them: when two editing
\* requests are all that has happened, they worked on the same object and at
\* most one of them fetched it.
C24_EditsShareOnePayload ==
    \A t \in Threads, u \in Threads :
        (t # u /\ OnlyEdited(t) /\ OnlyEdited(u) /\ nm[t] = nm[u]) =>
            /\ slice_obj[t] = slice_obj[u]
            /\ ~("get_slice" \in myCalls[t] /\ "get_slice" \in myCalls[u])

\* submit_slice of thread t has returned
Submitted(t) == pc[t] = "done" /\ op[t] = "submit_slice"

\* C25: a successful submit removes the draft: when submit_slice(n) has
\* returned successfully and no other request has written the entry of n since
\* its take, the store has no record for n; and a submit_slice that finds no
\* record is rejected (400, "no pending changes") without any upstream call,
\* which is what happens to a submit that follows at once.
C25_SubmitRemovesDraft ==
    \A t \in Threads :
        /\ (Submitted(t) /\ result[t] = "200" /\ ~interfered[t]) =>
              (nm[t] \notin DOMAIN draft_slices /\ nm[t] \notin DOMAIN draft_is_new)
        /\ (Submitted(t) /\ slice_obj[t] = None) =>
              (result[t] = "400" /\ myCalls[t] = {})
        /\ (Submitted(t) /\ result[t] = "400") => slice_obj[t] = None

\* one submit succeeded, the next one was rejected, the store is empty
C25_Witness ==
    \E t \in Threads, u \in Threads :
        /\ t # u
        /\ Submitted(t) /\ result[t] = "200"
        /\ Submitted(u) /\ result[u] = "400" /\ myCalls[u] = {}
        /\ popLog[nm[t]] = <<lastPut[nm[t]], <<None, TRUE>>>>
        /\ upstreamCalls[nm[t]] = {"submit"}
        /\ draft_slices = << >>

\* thread t is inside draft.submit() / draft.submit(wait=False)
InSubmit(t) == pc[t] = "s_submit"

\* C26: pop-and-act cannot race: the same payload object is never inside two
\* upstream submit calls at the same time, and a submit_slice request that
\* took no record never enters an upstream submit call.
C26_OneSubmitPerPayload ==
    /\ \A t \in Threads, u \in Threads :
          (t # u /\ InSubmit(t) /\ InSubmit(u)) => slice_obj[t] # slice_obj[u]
    /\ \A t \in Threads : InSubmit(t) => slice_obj[t] # None

\* get_slice of thread t has returned its 200 answer
ReadDone(t) == pc[t] = "done" /\ op[t] = "get_slice" /\ result[t] = "200"

\* get_slice of thread t is past _get_slice_obj, which found a record
ReadingDraft(t) ==
    /\ op[t] = "get_slice"
    /\ pc[t] \in {"g_is_draft", "g_store1", "g_store2", "ser_is_draft", "ser_is_new"}
    /\ myCalls[t] = {}

\* C27: the first read of a name starts an editable session and later reads
\* do not disturb it: when get_slice(n) found no record and has succeeded, the
\* store holds the object it loaded with is_new false; when it found a record,
\* no step of it changes either table. Both for a request during which no
\* other request writes the entry of n.
C27_FirstReadStartsSession ==
    /\ [](\A t \in Threads :
            (ReadDone(t) /\ "get_slice" \in myCalls[t] /\ ~interfered[t]) =>
                /\ nm[t] \in DOMAIN draft_slices
                /\ nm[t] \in DOMAIN draft_is_new
                /\ draft_slices[nm[t]] = slice_obj[t]
                /\ draft_is_new[nm[t]] = FALSE)
    /\ [][\A t \in Threads :
            (ReadingDraft(t) /\ pc'[t] # pc[t] /\ ~interfered[t]) =>
                (draft_slices' = draft_slices /\ draft_is_new' = draft_is_new)]_vars

\* a first read loaded the slice, a later read was served from the record
C27_Witness ==
    \E t \in Threads, u \in Threads :
        /\ t # u
        /\ ReadDone(t) /\ myCalls[t] = {"get_slice"}
        /\ ReadDone(u) /\ myCalls[u] = {}
        /\ slice_obj[u] = slice_obj[t]
        /\ draft_slices[nm[t]] = slice_obj[t]
        /\ draft_is_new[nm[t]] = FALSE
        /\ lastPut[nm[t]] = <<slice_obj[t], FALSE>>

\* =========================================================================
\* Properties of the terminal relay session (checked under TermSpec)
\* =========================================================================
InLog(r) == \E i \in 1..Len(closeLog) : closeLog[i] = r
IsPrefixOf(s, full) == Len(s) <= Len(full) /\ \A i \in 1..Len(s) : s[i] = full[i]
ReachedRelay == rstate # "none"
RelayEnded == spc \in {"fin1", "fin2", "fin3", "returned"}

\* the place of each setup step in terminal_ws; the slice key is loaded by
\* _connect_target, as part of authenticating to the target
StageNo(s) ==
    CASE s = "lookup"          -> 1
      [] s = "bastion_key"     -> 2
      [] s = "bastion_connect" -> 3
      [] s = "tunnel"          -> 4
      [] s = "slice_key"       -> 5
      [] s = "target_auth"     -> 5
      [] s = "shell"           -> 6
\* the setup step that opens each resource
ResStage(r) ==
    CASE r = "bastion" -> 3
      [] r = "channel" -> 4
      [] r = "target"  -> 5
      [] r = "shell"   -> 6

\* C6: a session that reached the relay loop calls close() on the shell, then
\* the target connection, then the bastion connection, each exactly once and
\* in that order, whichever of the closes raise.
C6_TeardownOrder ==
    ReachedRelay =>
        /\ IsPrefixOf(closeLog, <<"shell", "target", "bastion">>)
        /\ spc = "returned" => closeLog = <<"shell", "target", "bastion">>

\* teardown finished although shell.close() raised
C6_Witness ==
    /\ ReachedRelay
    /\ spc = "returned"
    /\ res["shell"] = "open"
    /\ res["target"] = "closed"
    /\ res["bastion"] = "closed"
    /\ closeLog = <<"shell", "target", "bastion">>

\* C7: when the call of setup stage k raised, no resource of a later stage is
\* ever opened in the session, and the handler has sent exactly one error
\* line when it ends (never more than one before).
C7_FailureOpensNothingLater ==
    failedStage # "none" =>
        /\ \A r \in Resources :
              ResStage(r) > StageNo(failedStage) => res[r] = "none"
        /\ errLines <= 1
        /\ (spc = "returned" /\ outcome # "cancelled") => errLines = 1

\* the tunnel could not be opened: the bastion is there, nothing after it
C7_Witness ==
    /\ failedStage = "tunnel"
    /\ spc = "returned"
    /\ outcome = "returned"
    /\ errLines = 1
    /\ res["bastion"] # "none"
    /\ res["target"] = "none"

\* a close() was called on the resource; closing the connection that carries
\* the forwarded stream counts for the stream
ReleaseAttempted(r) ==
    \/ InLog(r)
    \/ r = "channel" /\ (InLog("bastion") \/ InLog("target"))

\* C8: after a setup-stage failure, every resource opened before it (bastion
\* connection, forwarded stream, target connection) has had its release
\* attempted when the handler ends.
C8_FailureReleasesAll ==
    (failedStage # "none" /\ spc = "returned" /\ outcome # "cancelled")
    => \A r \in {"bastion", "channel", "target"} :
          res[r] # "none" => ReleaseAttempted(r)

\* C9: a relay session in which the client disconnected, or in which the
\* polling duty read the shell channel after it was closed, eventually leaves
\* the relay loop and runs teardown.
C9_SessionEnds ==
    (spc = "recv" /\ (clientGone \/ failedRead)) ~> RelayEnded

\* C10: whenever teardown has closed the shell, read_task.cancel() has been
\* called before.
C10_CancelBeforeTeardown ==
    (ReachedRelay /\ InLog("shell")) => cancelRequested

\* =========================================================================
\* Properties of the relay loop (C11 .. C18)
\* =========================================================================

\* a _read_shell call is running in the thread pool, or read_ssh is inside
\* websocket.send_text
PollingBusy == readsInFlight > 0 \/ rstate \in {"read", "send"}

\* C11: the polling duty has fully stopped before teardown proceeds: once
\* shell.close() has been invoked, the polling duty has no read of the shell
\* channel in flight and no send to the client in flight.
C11_StoppedBeforeTeardown == InLog("shell") => ~PollingBusy

\* a mid-session I/O failure has happened: send_text raised inside read_ssh, or
\* shell.send / shell.resize_pty raised inside the receive loop
SendFailed == rstate = "ended"
ShellCallFailed == endCause = "shell_error"

AllReleased == spc = "returned" /\ \A r \in {"shell", "target", "bastion"} : InLog(r)

\* C12: a mid-session I/O failure is never retried and terminates the
\* session: after send_text has failed in the polling duty that duty does
\* nothing more, after a shell write or resize has failed in the receive duty
\* the handler never waits for another message and changes nothing on the
\* shell, and in both cases the session eventually returns with the close of
\* shell, target and bastion attempted.
C12_FailureEndsSession ==
    /\ [][SendFailed => (rstate' = "ended" /\ readsInFlight' = readsInFlight)]_vars
    /\ [][ShellCallFailed => (spc' # "recv" /\ pty' = pty)]_vars
    /\ ((SendFailed \/ ShellCallFailed) ~> AllReleased)

C12_Witness == SendFailed /\ AllReleased /\ endCause = "disconnect"

\* the setup stage that opens the resource has completed successfully
Opened(r) == res[r] # "none"

\* C13: the setup stages run strictly in order: the forwarded stream is opened
\* only over a connected bastion, the target is authenticated only over the
\* forwarded stream, the shell is opened only on the authenticated target; a
\* stage is in progress only when the previous one has completed; and the relay
\* loop (the polling task, the first client receive) exists only once the
\* shell is open.
C13_StagesInOrder ==
    /\ Opened("channel") => Opened("bastion")
    /\ Opened("target") => Opened("channel")
    /\ Opened("shell") => Opened("target")
    /\ spc \in {"start", "lookup", "bastion"} => \A r \in Resources : ~Opened(r)
    /\ spc = "tunnel" => (Opened("bastion") /\ ~Opened("channel"))
    /\ spc = "target" => (Opened("channel") /\ ~Opened("target"))
    /\ spc \in {"relay", "recv", "fin1", "fin2", "fin3"} => Opened("shell")
    /\ (rstate # "none" \/ readsInFlight > 0 \/ pty # NoPty) => Opened("shell")

C13_Witness ==
    /\ spc = "recv"
    /\ rstate = "read"
    /\ \A r \in Resources : res[r] = "open"

\* a setup step raised and the handler has run to its end
SetupFailedAndOver ==
    failedStage # "none" /\ spc = "returned" /\ outcome # "cancelled"

\* C14: every setup error is caught at the session boundary: one error line
\* is sent, then the client transport is closed, and the handler returns
\* normally without having started the relay loop (no polling task, no shell
\* write or resize).
C14_SetupErrorCaught ==
    SetupFailedAndOver =>
        /\ errLines = 1
        /\ wsClosed
        /\ outcome = "returned"
        /\ rstate = "none"
        /\ readsInFlight = 0
        /\ pty \in {NoPty, ShellDefaultPty}

\* read_ssh is between two iterations' work: it holds no chunk it has read
\* and not yet sent
ReaderHoldsNothing == rstate \in {"read", "got_empty", "sleep"}

\* C15: shell output is relayed in order, without loss or duplication: the
\* chunks sent to the client are always a prefix of the non-empty chunks read
\* from the shell channel, at most the one chunk in hand is outstanding, and
\* whenever the running polling duty holds no chunk the two sequences are equal.
C15_RelayInOrder ==
    /\ IsPrefixOf(sentLog, readLog)
    /\ Len(readLog) <= Len(sentLog) + 1
    /\ ReaderHoldsNothing => sentLog = readLog

C15_Witness ==
    /\ spc = "recv"
    /\ ReaderHoldsNothing
    /\ Len(sentLog) = 2
    /\ sentLog = readLog

\* C16: only the receive duty writes to the shell channel and only the
\* polling duty reads from it: a step that writes or resizes (the write log
\* or the pty size changes) is a step of the handler at its receive and leaves
\* the polling task where it was; a step that starts or finishes a read is
\* never a step of the handler other than the one that creates the polling
\* task; and at most one _read_shell call is in flight at any time.
C16_OneWriterOneReader ==
    /\ [](readsInFlight <= 1)
    /\ [][(shellWrites' # shellWrites \/ (pty' # pty /\ pty # NoPty))
            => (spc = "recv" /\ rstate' = rstate /\ readsInFlight' = readsInFlight
                /\ readLog' = readLog)]_vars
    /\ [][(readsInFlight' # readsInFlight \/ readLog' # readLog)
            => (spc = "relay" \/ (spc' = spc /\ shellWrites' = shellWrites
                                  /\ pty' = pty))]_vars

\* a read is in flight while the receive duty has already written
C16_Witness ==
    /\ readsInFlight = 1
    /\ Len(shellWrites) = 2
    /\ Len(readLog) >= 1
    /\ pty \notin {NoPty, ShellDefaultPty}

\* C17: each "input" message received causes exactly one shell.send call, with
\* exactly its data, in the order of reception, and there is no other
\* shell.send call: the sequence of written texts equals the sequence of
\* received input data, and the last message handled caused one call if it
\* was an input message and none otherwise.
C17_InputWrittenOnce ==
    /\ shellWrites = inLog
    /\ lastHandled.kind = "input" => lastHandled.sends = 1
    /\ lastHandled.kind # "input" => lastHandled.sends = 0

C17_Witness ==
    /\ shellWrites = <<"b", "a">>
    /\ inLog = <<"b", "a">>
    /\ lastHandled.kind = "resize"

\* the size a resize message asks for, by the claim: 80 columns and 24 rows
\* when the key is missing
AskedSize(h) ==
    <<IF h.cols = Missing THEN 80 ELSE h.cols,
      IF h.rows = Missing THEN 24 ELSE h.rows>>

ResizeDone(h) == h.kind = "resize" /\ endCause # "shell_error"

\* C18: each "resize" message causes exactly one resize_pty call, which sets
\* the pseudo-terminal to (cols, rows) with 80 for a missing cols and 24 for a
\* missing rows; other messages cause none; and handling the same resize
\* message again leaves the size as it was after the first time.
C18_ResizeSetsSize ==
    /\ [](lastHandled.kind = "resize" => lastHandled.resizes = 1)
    /\ [](lastHandled.kind # "resize" => lastHandled.resizes = 0)
    /\ [](ResizeDone(lastHandled) => pty = AskedSize(lastHandled))
    /\ [][(ResizeDone(lastHandled) /\ ResizeDone(lastHandled')
           /\ AskedSize(lastHandled') = AskedSize(lastHandled)) => pty' = pty]_vars

C18_Witness ==
    /\ lastHandled.kind = "resize"
    /\ lastHandled.cols = Missing
    /\ lastHandled.rows = 40
    /\ pty = <<80, 40>>
    /\ spc = "recv"

\* ------------------------------------------------------------------------
\* Properties of the key loader (KeySpec)
\* ------------------------------------------------------------------------
KeyCallOver == keyResult # NoKeyResult

AllDecodersFail == \A i \in 1..3 : keyFile[i] # "ok"

\* C28: the key classes are tried in the order Ed25519, ECDSA, RSA; the call
\* returns the key of the first class that can read the file and tries no
\* later class; when no class can read the file it raises an error carrying
\* the error of the last class tried (RSA), and it returns no key.
C28_FirstDecoderWins ==
    /\ IsPrefixOf(keyTried, <<"Ed25519Key", "ECDSAKey", "RSAKey">>)
    /\ \A i \in 1..Len(keyTried) - 1 : keyFile[i] # "ok"
    /\ keyResult[1] = "returned" =>
          /\ keyTried # << >>
          /\ keyFile[Len(keyTried)] = "ok"
          /\ keyResult[2] = keyTried[Len(keyTried)]
    /\ keyResult[1] = "raised" =>
          /\ AllDecodersFail
          /\ Len(keyTried) = 3
          /\ keyResult[2] = <<"RSAKey", keyFile[3]>>
    /\ (KeyCallOver /\ AllDecodersFail) => keyResult[1] = "raised"
    /\ (KeyCallOver /\ ~AllDecodersFail) => keyResult[1] = "returned"

\* a call that returned the ECDSA key after Ed25519 failed on a file RSA could
\* also read, and a call that raised with the RSA class's error
C28_Witness ==
    \/ /\ keyResult = <<"returned", "ECDSAKey">>
       /\ keyFile[3] = "ok"
       /\ last_err = <<"Ed25519Key", "bad_format">>
    \/ /\ keyResult = <<"raised", <<"RSAKey", "io_error">>>>
       /\ keyFile[1] = "bad_format"

\* ------------------------------------------------------------------------
\* Order of the setup lines and calls (TermSpec)
\* ------------------------------------------------------------------------
InStageLog(e) == \E i \in 1..Len(stageLog) : stageLog[i] = e

LoggedBefore(a, b) ==
    \E i, j \in 1..Len(stageLog) : i < j /\ stageLog[i] = a /\ stageLog[j] = b

IsLine(e) == e \notin {"call get_slice", "call _connect_bastion",
                       "call _open_tunnel", "call _connect_target"}

\* C29: for the bastion connect, tunnel open and target authentication
\* stages, the progress line is sent before the stage's blocking call begins,
\* the completion line of a stage is sent before the progress line of the
\* next stage, and the lines the client gets are in the order of the stages.
C29_StageAnnouncedFirst ==
    /\ InStageLog("call _connect_bastion") =>
          LoggedBefore("Connecting to bastion", "call _connect_bastion")
    /\ InStageLog("call _open_tunnel") =>
          LoggedBefore("Opening tunnel", "call _open_tunnel")
    /\ InStageLog("call _connect_target") =>
          LoggedBefore("Authenticating", "call _connect_target")
    /\ InStageLog("Opening tunnel") =>
          /\ LoggedBefore("call _connect_bastion", "Bastion connected.")
          /\ LoggedBefore("Bastion connected.", "Opening tunnel")
    /\ InStageLog("Authenticating") =>
          /\ LoggedBefore("call _open_tunnel", "Tunnel established.")
          /\ LoggedBefore("Tunnel established.", "Authenticating")
    /\ InStageLog("Connected.") =>
          LoggedBefore("call _connect_target", "Connected.")
    /\ IsPrefixOf(SelectSeq(stageLog, IsLine),
                  <<"Looking up node", "Node found", "Loading SSH keys",
                    "Connecting to bastion", "Bastion connected.",
                    "Opening tunnel", "Tunnel established.", "Authenticating",
                    "Connected.">>)

\* all three stages ran and the session reached the relay loop
C29_Witness ==
    /\ spc = "recv"
    /\ InStageLog("call _connect_bastion")
    /\ InStageLog("call _open_tunnel")
    /\ InStageLog("call _connect_target")
    /\ InStageLog("Connected.")

\* ------------------------------------------------------------------------
\* Release of the forwarded stream (TermSpec)
\* ------------------------------------------------------------------------
\* C30: whenever a session that opened the forwarded stream closes its
\* bastion connection, in teardown or in the cleanup after a setup failure,
\* the stream was released earlier: by a close of the stream itself or of the
\* target connection whose transport it is.
C30_StreamReleasedFirst ==
    \A j \in 1..Len(closeLog) :
        (closeLog[j] = "bastion" /\ Opened("channel")) =>
            \E i \in 1..(j - 1) : closeLog[i] \in {"channel", "target"}

\* ------------------------------------------------------------------------
\* Further properties of the draft store (DraftSpec)
\* ------------------------------------------------------------------------
\* C31: whenever no thread is inside the lock, the payload table and the
\* isNew table have the same set of names: no payload without a flag and no
\* flag without a payload, after any sequence of puts and takes.
C31_TablesSameKeys ==
    draft_lock = NoThread => DOMAIN draft_slices = DOMAIN draft_is_new

\* a record is in the table again after an earlier one was taken and submitted
C31_Witness ==
    /\ draft_lock = NoThread
    /\ "exp1" \in DOMAIN draft_slices
    /\ "exp1" \in DOMAIN draft_is_new
    /\ "submit" \in upstreamCalls["exp1"]

\* C32: _serialize gives a slice the state "Draft" only if, at that moment,
\* the store holds a record for the name whose isNew flag is true: never for
\* a loaded draft and never for a name without a record, whatever other
\* requests do between its two lookups.
C32_DraftLabelOnlyForNew ==
    [][\A t \in Threads :
          (pc[t] = "ser_is_new" /\ pc'[t] = "done" /\ label'[t]) =>
              /\ nm[t] \in DOMAIN draft_is_new
              /\ draft_is_new[nm[t]]]_vars

\* C33: list_slices appends exactly one "Draft" entry for each record whose
\* name the upstream list lacks and whose isNew flag is true, and none for a
\* loaded draft (isNew false) or for a name the upstream list holds.
C33_DraftEntriesForNewOnly ==
    [][\A t \in Threads :
          (pc[t] = "l_scan" /\ pc'[t] = "done") =>
              \A n \in Names :
                  draftEntries'[t][n] =
                      IF /\ n \in DOMAIN draft_slices
                         /\ n \notin existing_names[t]
                         /\ DictGet(draft_is_new, n, FALSE)
                      THEN 1 ELSE 0]_vars

RefreshFailed(t) ==
    /\ op[t] = "refresh_slice"
    /\ pc[t] = "done"
    /\ result[t] = "500"

\* the request of t took a draft of its name out of the store, and no other
\* request has written the entry since
TookDraft(t) ==
    /\ ~interfered[t]
    /\ popLog[nm[t]] # << >>
    /\ popLog[nm[t]][Len(popLog[nm[t]])][1] # None

\* C34: when refresh_slice is called while a draft exists and the upstream
\* reload (get_slice or update) raises, the request ends with an error and
\* the store holds no record for the name: the draft it took is not put back.
C34_FailedRefreshDropsDraft ==
    /\ [][\A t \in Threads :
            (pc[t] \in {"r_fetch", "r_update"} /\ pc'[t] = "done") =>
                result'[t] = "500"]_vars
    /\ [](\A t \in Threads :
            (RefreshFailed(t) /\ TookDraft(t)) =>
                /\ nm[t] \notin DOMAIN draft_slices
                /\ nm[t] \notin DOMAIN draft_is_new)

\* a refresh that took a draft and whose update() raised
C34_Witness ==
    \E t \in Threads :
        /\ RefreshFailed(t)
        /\ TookDraft(t)
        /\ "update" \in myCalls[t]

DeleteOver(t) == op[t] = "delete_slice" /\ pc[t] = "done"

\* the draft t took was a loaded one (isNew false)
TookLoadedDraft(t) ==
    /\ TookDraft(t)
    /\ popLog[nm[t]][Len(popLog[nm[t]])][2] = FALSE

\* C35: delete_slice on a name whose draft has isNew false removes the record
\* and then goes upstream (get_slice, then delete); the record stays absent
\* whether the upstream delete succeeds or raises: nothing is put back.
C35_DeleteLoadedDraft ==
    \A t \in Threads :
        (DeleteOver(t) /\ TookLoadedDraft(t)) =>
            /\ nm[t] \notin DOMAIN draft_slices
            /\ nm[t] \notin DOMAIN draft_is_new
            /\ "get_slice" \in myCalls[t]
            /\ result[t] \in {"200", "500"}
            /\ result[t] = "200" => "delete" \in myCalls[t]

\* the upstream delete of a loaded draft raised
C35_Witness ==
    \E t \in Threads :
        /\ DeleteOver(t)
        /\ TookLoadedDraft(t)
        /\ "delete" \in myCalls[t]
        /\ result[t] = "500"

\* ------------------------------------------------------------------------
\* Client messages the relay loop does not act on (TermIOSpec)
\* ------------------------------------------------------------------------
\* well-formed JSON whose type is neither "input" nor "resize", or that has no
\* type: an object of another type or without one, or a value that is no object
WellFormedOther == {"other", "not_object"}

\* C36: a well-formed JSON message whose type is neither "input" nor "resize",
\* or that has no type, causes no shell write and no resize and does not end
\* the session; a message that is no valid JSON, and an input message without
\* data, end the session.
C36_OtherMessagesIgnored ==
    /\ lastHandled.kind \in WellFormedOther =>
          /\ lastHandled.sends = 0
          /\ lastHandled.resizes = 0
          /\ endCause \notin {"recv_error", "shell_error"}
    /\ lastHandled.kind \in {"bad_json", "input_no_data"} =>
          /\ endCause = "recv_error"
          /\ RelayEnded

\* C36 as amended: a JSON object whose type is neither "input" nor "resize",
\* or that has no type, causes no shell write and no resize and does not end
\* the session; a message that is no valid JSON, a JSON value that is no
\* object, and an input message without data, end the session.
C36_OtherObjectsIgnored ==
    /\ lastHandled.kind = "other" =>
          /\ lastHandled.sends = 0
          /\ lastHandled.resizes = 0
          /\ endCause \notin {"recv_error", "shell_error"}
    /\ lastHandled.kind \in {"bad_json", "not_object", "input_no_data"} =>
          /\ lastHandled.sends = 0
          /\ lastHandled.resizes = 0
          /\ endCause = "recv_error"
          /\ RelayEnded

\* an object of another type came after an input message, and the handler
\* waits for the next message
C36_Witness ==
    /\ lastHandled.kind = "other"
    /\ spc = "recv"
    /\ Len(inLog) = 1
    /\ endCause = "none"

\* ------------------------------------------------------------------------
\* A node without a management IP (TermSpec)
\* ------------------------------------------------------------------------
\* the inventory returned no address: None or the empty string
NoManagementIp == mgmt_ip \in {StrOfIp("none"), StrOfIp("empty")}

\* C37: when the looked-up node has no management IP (the inventory returns
\* none or an empty value), no bastion connection is ever attempted, and the
\* session, with the client still connected and unless its task is cancelled,
\* ends having sent the one error line, closed the client transport and
\* returned.
C37_NoIpStopsBeforeBastion ==
    NoManagementIp =>
        /\ ~InStageLog("call _connect_bastion")
        /\ res["bastion"] = "none"
        /\ (spc = "returned" /\ ~clientGone /\ outcome # "cancelled") =>
              (errLines = 1 /\ wsClosed /\ outcome = "returned")

\* ------------------------------------------------------------------------
\* Properties of the manager singleton (FabSpec)
\* ------------------------------------------------------------------------
GetOver(t) == fop[t] = "get_fablib" /\ fpc[t] = "done"

\* C38: in a configured system, whatever get_fablib and reset_fablib calls
\* run concurrently, a get_fablib call that does not raise returns a
\* constructed manager instance, never None.
C38_NeverReturnsNone ==
    \A t \in Threads :
        (rcPresent /\ GetOver(t) /\ fret[t] # Raised) =>
            \E i \in 1..constructed : fret[t] = Returned(i)

\* C39: as long as reset_fablib has not been called, FablibManager is
\* constructed at most once and every get_fablib call that returns gives that
\* one instance; when fabric_rc is absent every call raises and _fablib stays
\* unset.
C39_SingletonBetweenResets ==
    resets = 0 =>
        /\ constructed <= 1
        /\ fablib \in {None, 1}
        /\ \A t \in Threads :
              GetOver(t) =>
                  /\ fret[t] # Raised =>
                        (fret[t] = Returned(1) /\ constructed = 1 /\ fablib = 1)
                  /\ ~rcPresent => fret[t] = Raised
        /\ ~rcPresent => (fablib = None /\ constructed = 0)

\* both threads returned the one instance, each having called twice
C39_Witness ==
    /\ resets = 0
    /\ constructed = 1
    /\ \A t \in Threads : GetOver(t) /\ fret[t] = Returned(1) /\ fcalls[t] = 2

====
